---- MODULE Spec2Model ----
(***************************************************************************)
(* Model of modules/stamper.py: stamp_pdf_at_position, the visual-to-       *)
(* drawing coordinate transform and the auto-fit text layout of the        *)
(* approval stamp; of the generate stage of the wizard in app.py; of the   *)
(* vendor lookup of modules/lookup.py; of extract_retainage and           *)
(* parse_invoice of modules/parser.py; and of process_invoice, the six     *)
(* stages of the wizard and the canvas script of app.py.  Each part has    *)
(* its own specification: Spec and SpecRepeat (stamper, generate stage),   *)
(* SpecLookup, SpecParser, SpecInvoice, SpecWizard, SpecCanvas.            *)
(*                                                                         *)
(* Numbers.  Python floats are modelled by exact arithmetic.  Lengths are  *)
(* integers counting 1/Scale of a point (Scale is derived from the zoom    *)
(* factors of the model, so that every division by zoom is exact, as it is *)
(* in binary floating point for the dyadic zooms used here).  Font sizes   *)
(* are exact rationals <<numerator, denominator>> with denominator > 0.    *)
(*                                                                         *)
(* Text.  A Python str is a sequence of one-character strings.             *)
(*                                                                         *)
(* PyMuPDF (fitz) is the PDF engine behind the calls of the source; the    *)
(* operators that stand for its calls state the engine's documented        *)
(* behaviour at the line of the call.                                      *)
(***************************************************************************)
EXTENDS Integers, Sequences, FiniteSets, TLC

VARIABLES
    pc,            \* position inside stamp_pdf_at_position
    args,          \* the arguments of the call in progress, and datetime.now()
    doc,           \* the document handle opened by the call
    geo,           \* locals of lines 35-56: rotation, visual rect, drawing_rect
    lay,           \* locals of lines 73-122: text, text_rotate, text_rect, fontsize
    debug_info,    \* the diagnostics record
    result,        \* what the call gave its caller: returned bytes or a raised error
    session,       \* st.session_state of the wizard (app.py)
    first,         \* history: what the first finished call of a run of calls computed
    ncalls,        \* history: the number of finished calls
    lookup_instance, \* modules/lookup.py: the module global _lookup_instance
    constructed,   \* history: the VendorLookup objects constructed so far
    lk,            \* the last call into modules/lookup.py and what it gave
    px,            \* the last call of parser.extract_retainage and what it gave
    inv,           \* the last call of process_invoice (app.py) and what it gave
    box            \* the stamp box of the position stage's canvas and its mouse state

stampVars == <<pc, args, doc, geo, lay, debug_info, result>>

lookupVars == <<lookup_instance, constructed, lk>>

\* what stamp_pdf_at_position does not touch
outside == <<session, first, ncalls, lookupVars, px, inv, box>>

vars == <<stampVars, outside>>

----------------------------------------------------------------------------
(* Bounds of the model *)

\* documents have 0..MaxPages pages
MaxPages == 1

\* the longest content line is lengthened by 0..MaxExtraChars characters when
\* two contents are compared
MaxExtraChars == 3

\* a run of calls has at most MaxCalls calls
MaxCalls == 3

----------------------------------------------------------------------------
(* Arithmetic helpers *)

Abs(n) == IF n < 0 THEN -n ELSE n

Min2(a, b) == IF a < b THEN a ELSE b

Max2(a, b) == IF a > b THEN a ELSE b

SetMin(S) == CHOOSE m \in S : \A n \in S : m <= n

SetMax(S) == CHOOSE m \in S : \A n \in S : m >= n

\* min(xs) and max(xs) of a Python list of numbers (lines 56)
SeqMin(s) == CHOOSE m \in {s[i] : i \in DOMAIN s} : \A i \in DOMAIN s : m <= s[i]

SeqMax(s) == CHOOSE m \in {s[i] : i \in DOMAIN s} : \A i \in DOMAIN s : m >= s[i]

\* rationals <<n, d>>, d > 0
QLess(p, q) == p[1] * q[2] < q[1] * p[2]

QLeq(p, q) == p[1] * q[2] <= q[1] * p[2]

QEq(p, q) == p[1] * q[2] = q[1] * p[2]

\* Python's min(a, b): b only when b < a
QMin(a, b) == IF QLess(b, a) THEN b ELSE a

\* Python's max(a, b): b only when b > a
QMax(a, b) == IF QLess(a, b) THEN b ELSE a

QInt(n) == <<n, 1>>

----------------------------------------------------------------------------
(* Text: str operations used by lines 73-80 and 104-106 *)

DigitChars == <<"0", "1", "2", "3", "4", "5", "6", "7", "8", "9">>

NL == "\n"

\* the characters str.strip() removes
IsSpace(c) == c \in {" ", NL, "\t"}

RECURSIVE NatStr(_)
\* str(n) for n >= 0
NatStr(n) ==
    IF n < 10 THEN <<DigitChars[n + 1]>>
    ELSE NatStr(n \div 10) \o <<DigitChars[(n % 10) + 1]>>

\* n >= 0 written with at least k digits, zero padded
RECURSIVE PadStr(_, _)
PadStr(n, k) ==
    IF k <= 1 THEN NatStr(n)
    ELSE IF Len(NatStr(n)) >= k THEN NatStr(n)
    ELSE <<"0">> \o PadStr(n, k - 1)

RECURSIVE GroupStr(_)
\* the ',' format option: groups of three digits
GroupStr(n) ==
    IF n < 1000 THEN NatStr(n)
    ELSE GroupStr(n \div 1000) \o <<",">> \o PadStr(n % 1000, 3)

\* f"{amount:,.2f}" of an amount given in cents
FormatAmount(cents) ==
    (IF cents < 0 THEN <<"-">> ELSE <<>>)
        \o GroupStr(Abs(cents) \div 100) \o <<".">> \o PadStr(Abs(cents) % 100, 2)

\* a faulty FormatDate: the time of day is written after the date
FormatDateAndTime(now) ==
    NatStr(now[1]) \o <<"/">> \o NatStr(now[2]) \o <<"/">> \o PadStr(now[3], 4)
    \o <<" ", "0", "9", ":", "3", "0", ":", "0", "0">>

\* datetime.strftime("%-m/%-d/%Y") of now = <<month, day, year>>
FormatDate(now) ==
    NatStr(now[1]) \o <<"/">> \o NatStr(now[2]) \o <<"/">> \o PadStr(now[3], 4)

\* x or '________'
OrBlank(x) == IF x = <<>> THEN <<"_", "_", "_", "_", "_", "_", "_", "_">> ELSE x

\* a faulty TextContent: a line whose value is missing is left out
TextContentSkipBlank(commitment_id, cost_code, amount_due, retainage, approver, now) ==
    (IF commitment_id = <<>> THEN <<>>
     ELSE <<"C", "O", "M", ":", " ">> \o commitment_id \o <<NL>>)
    \o (IF cost_code = <<>> THEN <<>>
        ELSE <<"C", ".", "C", ":", " ">> \o cost_code \o <<NL>>)
    \o <<"D", "U", "E", ":", " ", "$">> \o FormatAmount(amount_due) \o <<NL>>
    \o <<"R", "E", "T", ":", " ", "$">> \o FormatAmount(retainage) \o <<NL>>
    \o <<"B", "y", ":", " ">> \o approver \o <<NL>>
    \o <<"D", "a", "t", "e", ":", " ">> \o FormatDate(now)

\* the f-string of lines 75-80
TextContent(commitment_id, cost_code, amount_due, retainage, approver, now) ==
    <<"C", "O", "M", ":", " ">> \o OrBlank(commitment_id) \o <<NL>>
    \o <<"C", ".", "C", ":", " ">> \o OrBlank(cost_code) \o <<NL>>
    \o <<"D", "U", "E", ":", " ", "$">> \o FormatAmount(amount_due) \o <<NL>>
    \o <<"R", "E", "T", ":", " ", "$">> \o FormatAmount(retainage) \o <<NL>>
    \o <<"B", "y", ":", " ">> \o approver \o <<NL>>
    \o <<"D", "a", "t", "e", ":", " ">> \o FormatDate(now)

RECURSIVE LStrip(_)
LStrip(s) == IF s # <<>> /\ IsSpace(Head(s)) THEN LStrip(Tail(s)) ELSE s

RECURSIVE RStrip(_)
RStrip(s) ==
    IF s # <<>> /\ IsSpace(s[Len(s)]) THEN RStrip(SubSeq(s, 1, Len(s) - 1)) ELSE s

\* str.strip()
Strip(s) == RStrip(LStrip(s))

RECURSIVE SplitNL(_, _)
\* str.split('\n'): cur is the piece being read
SplitNL(s, cur) ==
    IF \A i \in DOMAIN s : s[i] # NL THEN <<cur \o s>>
    ELSE LET i == CHOOSE i \in DOMAIN s : s[i] = NL /\ \A j \in 1..(i - 1) : s[j] # NL
         IN  <<cur \o SubSeq(s, 1, i - 1)>> \o SplitNL(SubSeq(s, i + 1, Len(s)), <<>>)

\* text_content.strip().split('\n') (line 104)
Lines(text_content) == SplitNL(Strip(text_content), <<>>)

\* len(max(lines, key=len)) (line 106 and its use on line 117)
LongestLen(lines) == SeqMax([i \in DOMAIN lines |-> Len(lines[i])])

\* max(lines, key=len): the first line of maximal length (line 106)
LongestLine(lines) ==
    lines[CHOOSE i \in DOMAIN lines :
            /\ Len(lines[i]) = LongestLen(lines)
            /\ \A j \in DOMAIN lines : Len(lines[j]) = LongestLen(lines) => i <= j]

----------------------------------------------------------------------------
(* Inputs of the model *)

\* zoom factors <<numerator, denominator>>: -1, 0, 0.5, 1.0 and 2.0
Zooms == {<<-1, 1>>, <<0, 1>>, <<1, 2>>, <<1, 1>>, <<2, 1>>}

\* lengths are counted in 1/Scale point: the least unit in which every
\* pixel count divided by a zoom of the model is a whole number
Scale ==
    CHOOSE k \in 1..16 :
        /\ \A z \in Zooms : z[1] # 0 => (k * z[2]) % Abs(z[1]) = 0
        /\ \A j \in 1..(k - 1) : \E z \in Zooms : z[1] # 0 /\ (j * z[2]) % Abs(z[1]) # 0

Pt(n) == n * Scale

Rotations == {0, 90, 180, 270}

\* native (unrotated) page size in points: US Letter
PageSizes == {<<612, 792>>}

\* a page as the engine holds it: rotation, native size, what was drawn on it
NewPage(r, size) == [rotation |-> r, w |-> Pt(size[1]), h |-> Pt(size[2]), contents |-> <<>>]

\* pdf_bytes: unreadable bytes, or a document of 0..MaxPages pages whose first
\* page has any rotation (the others are unrotated)
Pdfs ==
    {[readable |-> FALSE, pages |-> <<>>]}
    \cup {[readable |-> TRUE,
           pages |-> [i \in 1..n |-> NewPage(IF i = 1 THEN r ELSE 0, size)]] :
             n \in 0..MaxPages, r \in Rotations, size \in PageSizes}

CommitmentIds == {<<>>, <<"O", "A", "K", "H", "S">>, <<"O", "A", NL, "K">>}

CostCodes == {<<>>}

\* amounts in cents: 6,930.00 due, nothing retained
AmountsDue == {693000}

Retainages == {0}

\* the default "Alan Sar Shalom", and an empty name
Approvers ==
    {<<"A", "l", "a", "n", " ", "S", "a", "r", " ", "S", "h", "a", "l", "o", "m">>, <<>>}

\* datetime.now() as <<month, day, year>>
Nows == {<<1, 1, 2026>>, <<11, 5, 2026>>}

\* canvas widths and heights in pixels: zero, the inset width, small, the
\* defaults 140 and 80, very large
CanvasWs == {0, 80, 140, 2000}

CanvasHs == {0, 10, 30, 80}

\* the visible (rotated) size of the first page in points, 0 if there is none
VisualSize(pdf) ==
    IF pdf.pages = <<>> THEN <<0, 0>>
    ELSE LET p == pdf.pages[1]
         IN  IF p.rotation \in {90, 270} THEN <<p.h \div Scale, p.w \div Scale>>
             ELSE <<p.w \div Scale, p.h \div Scale>>

\* pixels of the rendered preview along one axis: zoom * visual size
CanvasExtent(visual, zoom) == (visual * zoom[1]) \div zoom[2]

\* canvas positions: 20 pixels past the near edge (x), the near edge (y), the
\* default 50, and flush with the far edge of the preview
CanvasXs(pdf, zoom, w) == {-20, 50, CanvasExtent(VisualSize(pdf)[1], zoom) - w}

CanvasYs(pdf, zoom, h) == {0, 50, CanvasExtent(VisualSize(pdf)[2], zoom) - h}

----------------------------------------------------------------------------
(* Geometry: lines 35-56 *)

\* canvas / zoom (lines 39-42), in 1/Scale point; the caller guards zoom # 0
DivZoom(canvas, zoom) ==
    IF zoom[1] > 0 THEN (canvas * zoom[2] * Scale) \div zoom[1]
    ELSE -((canvas * zoom[2] * Scale) \div (-zoom[1]))

\* the visual rectangle <<visual_x, visual_y, stamp_w, stamp_h>> (lines 39-42)
VisualRect(cx, cy, cw, ch, zoom) ==
    <<DivZoom(cx, zoom), DivZoom(cy, zoom), DivZoom(cw, zoom), DivZoom(ch, zoom)>>

\* corners_visual (lines 45-50)
CornersVisual(v) ==
    << <<v[1], v[2]>>, <<v[1] + v[3], v[2]>>,
       <<v[1], v[2] + v[4]>>, <<v[1] + v[3], v[2] + v[4]>> >>

\* a faulty Derot: the translation offsets of 90 and 270 exchanged
WrongDerot(c, page) ==
    CASE page.rotation = 90  -> <<c[2], page.w - c[1]>>
      [] page.rotation = 180 -> <<page.w - c[1], page.h - c[2]>>
      [] page.rotation = 270 -> <<page.h - c[2], c[1]>>
      [] OTHER               -> c

\* c * page.derotation_matrix (lines 36, 51).  The engine's rotation matrix of
\* a page of native size w x h is (0,1,-1,0,h,0) for 90, (-1,0,0,-1,w,h) for
\* 180 and (0,-1,1,0,0,w) for 270; the derotation matrix is its inverse.
Derot(c, page) ==
    CASE page.rotation = 90  -> <<c[2], page.h - c[1]>>
      [] page.rotation = 180 -> <<page.w - c[1], page.h - c[2]>>
      [] page.rotation = 270 -> <<page.w - c[2], c[1]>>
      [] OTHER               -> c

\* a faulty DrawingRect: the rectangle spanned by the mapped top-left and
\* bottom-right corners, without min and max
TwoCornerRect(v, page) ==
    LET a == Derot(<<v[1], v[2]>>, page)
        b == Derot(<<v[1] + v[3], v[2] + v[4]>>, page)
    IN  <<a[1], a[2], b[1], b[2]>>

\* drawing_rect <<x0, y0, x1, y1>> (lines 51-56)
DrawingRect(v, page) ==
    LET corners_draw == [i \in 1..4 |-> Derot(CornersVisual(v)[i], page)]
        xs == [i \in 1..4 |-> corners_draw[i][1]]
        ys == [i \in 1..4 |-> corners_draw[i][2]]
    IN  <<SeqMin(xs), SeqMin(ys), SeqMax(xs), SeqMax(ys)>>

\* a faulty RectWidth: the extent of a rectangle with x1 < x0 counted positive
MirroredRectWidth(r) == Abs(r[3] - r[1])

\* fitz.Rect.width and fitz.Rect.height: max(0, x1 - x0), max(0, y1 - y0)
RectWidth(r) == Max2(0, r[3] - r[1])

RectHeight(r) == Max2(0, r[4] - r[2])

\* fitz.Rect.is_empty: no area
RectIsEmpty(r) == r[1] >= r[3] \/ r[2] >= r[4]

----------------------------------------------------------------------------
(* Layout: lines 82-127 *)

padding == 5

\* the 10 subtracted from the text rectangle's dimensions (lines 110-114)
LineMargin == 10

\* 0.52 and 1.25, in hundredths (lines 117, 119)
CharWidthPct == 52

LineHeightPct == 125

\* the clamp of line 122
MinFontsize == 5

MaxFontsize == 10

\* a faulty TextRotate: the complement 360 - rotation
InverseTextRotate(rotation) == (360 - rotation) % 360

\* text_rotate (lines 84-90)
TextRotate(rotation) ==
    IF rotation = 270 THEN 270
    ELSE IF rotation = 90 THEN 90
    ELSE IF rotation = 180 THEN 180
    ELSE 0

\* text_rect (lines 95-100)
TextRect(dr) ==
    <<dr[1] + Pt(padding), dr[2] + Pt(padding), dr[3] - Pt(padding), dr[4] - Pt(padding)>>

\* a faulty AvailableLineWidth: the axes are not exchanged for rotated text
UnswappedLineWidth(text_rect, text_rotate) == RectWidth(text_rect) - Pt(LineMargin)

\* available_line_width (lines 108-114)
AvailableLineWidth(text_rect, text_rotate) ==
    IF text_rotate \in {90, 270} THEN RectHeight(text_rect) - Pt(LineMargin)
    ELSE RectWidth(text_rect) - Pt(LineMargin)

\* available_stack_height (lines 108-114)
AvailableStackHeight(text_rect, text_rotate) ==
    IF text_rotate \in {90, 270} THEN RectWidth(text_rect) - Pt(LineMargin)
    ELSE RectHeight(text_rect) - Pt(LineMargin)

\* a faulty FontsizeW: the character-width ratio 0.5 of the comment on line 116
FontsizeWHalf(available_line_width, longest_len) ==
    <<available_line_width * 100, Scale * longest_len * 50>>

\* fontsize_w = available_line_width / (len(longest_line) * 0.52) (line 117);
\* every content line starts with its label, so the divisor is not 0
FontsizeW(available_line_width, longest_len) ==
    <<available_line_width * 100, Scale * longest_len * CharWidthPct>>

\* a faulty FontsizeH: the line-height ratio 1.3 of the comment on line 118
FontsizeHLoose(available_stack_height, num_lines) ==
    <<available_stack_height * 100, Scale * num_lines * 130>>

\* fontsize_h = available_stack_height / (num_lines * 1.25) (line 119)
FontsizeH(available_stack_height, num_lines) ==
    <<available_stack_height * 100, Scale * num_lines * LineHeightPct>>

\* a faulty Clamp: the upper limit is missing
ClampLowerOnly(fontsize) == QMax(QInt(MinFontsize), fontsize)

\* a faulty Clamp: the lower limit is missing, so that a negative available
\* width gives a negative size that grows with the line length
ClampUpperOnly(fontsize) == QMin(fontsize, QInt(MaxFontsize))

\* max(5, min(fontsize, 10)) (line 122)
Clamp(fontsize) == QMax(QInt(MinFontsize), QMin(fontsize, QInt(MaxFontsize)))

\* fontsize (lines 104-122)
Fontsize(text_rect, text_rotate, lines) ==
    LET fontsize_w == FontsizeW(AvailableLineWidth(text_rect, text_rotate), LongestLen(lines))
        fontsize_h == FontsizeH(AvailableStackHeight(text_rect, text_rotate), Len(lines))
    IN  Clamp(QMin(fontsize_w, fontsize_h))

\* round(q, 1) in tenths: to nearest, an exact tie to the even tenth
RoundTenths(q) ==
    LET t == (q[1] * 20 + q[2]) \div (2 * q[2])
    IN  IF (q[1] * 20 + q[2]) % (2 * q[2]) = 0 /\ t % 2 # 0 THEN t - 1 ELSE t

\* a length in 1/Scale point as a rational number of points
AsPoints(n) == <<n, Scale>>

----------------------------------------------------------------------------
(* stamp_pdf_at_position, step by step *)

NoResult == [kind |-> "none", error |-> "", output |-> <<>>]

NoGeo == [rotation |-> 0, visual |-> <<0, 0, 0, 0>>, drawing_rect |-> <<0, 0, 0, 0>>]

NoLay ==
    [lines |-> <<>>, text_rotate |-> 0, text_rect |-> <<0, 0, 0, 0>>,
     available_line_width |-> 0, available_stack_height |-> 0,
     fontsize |-> QInt(0), rc |-> 0]

\* the session when a script run enters the generate stage: the position stage
\* has set stage (app.py line 558); nothing has set output_bytes or preview_png
NoSession == [stage |-> "generate", output_bytes |-> <<>>, preview_png |-> <<>>]

\* no call has finished
NoCall == [finished |-> FALSE]

\* _lookup_instance = None (lookup.py line 113)
NoInstance == [id |-> 0, rows |-> <<>>]

NoLookup ==
    [op |-> "none", kind |-> "none", instance |-> 0, vendor_name |-> <<>>, threshold |-> 0,
     results |-> <<>>, value |-> [commitment_id |-> <<"None">>, cost_code |-> <<"None">>,
                                  matched_vendor |-> <<"None">>]]

NoExtract == [op |-> "none", text |-> <<>>, total_completed |-> 0, value |-> 0]

\* process_invoice has not been called
NoInvoice == [op |-> "none"]

\* the position stage has not shown its canvas
NoBox == [shown |-> FALSE]

NoArgs ==
    [pdf_bytes |-> [readable |-> FALSE, pages |-> <<>>],
     commitment_id |-> <<>>, cost_code |-> <<>>, amount_due |-> 0, retainage |-> 0,
     approver |-> <<>>, canvas_x |-> 0, canvas_y |-> 0, canvas_w |-> 0, canvas_h |-> 0,
     zoom |-> <<1, 1>>, now |-> <<1, 1, 2026>>]

Init ==
    /\ pc = "idle"
    /\ args = NoArgs
    /\ doc = [open |-> FALSE, pages |-> <<>>]
    /\ geo = NoGeo
    /\ lay = NoLay
    /\ debug_info = <<>>
    /\ result = NoResult
    /\ session = NoSession
    /\ first = NoCall
    /\ ncalls = 0
    /\ lookup_instance = NoInstance
    /\ constructed = <<>>
    /\ lk = NoLookup
    /\ px = NoExtract
    /\ inv = NoInvoice
    /\ box = NoBox

\* an exception leaves the function: nothing is returned, nothing is closed
Raise(error) ==
    /\ pc' = "raised"
    /\ result' = [kind |-> "raised", error |-> error, output |-> <<>>]

\* the caller invokes stamp_pdf_at_position (lines 12-25)
Call ==
    /\ pc = "idle"
    /\ \E pdf \in Pdfs, zoom \in Zooms, w \in CanvasWs, h \in CanvasHs,
          id \in CommitmentIds, cc \in CostCodes, due \in AmountsDue,
          ret \in Retainages, by \in Approvers, now \in Nows :
          \E x \in CanvasXs(pdf, zoom, w), y \in CanvasYs(pdf, zoom, h) :
             args' = [pdf_bytes |-> pdf, commitment_id |-> id, cost_code |-> cc,
                      amount_due |-> due, retainage |-> ret, approver |-> by,
                      canvas_x |-> x, canvas_y |-> y, canvas_w |-> w, canvas_h |-> h,
                      zoom |-> zoom, now |-> now]
    /\ pc' = "open"
    /\ UNCHANGED <<doc, geo, lay, debug_info, result>>
    /\ UNCHANGED outside

\* doc = fitz.open(...); page = doc[0] (lines 32-33)
Open ==
    /\ pc = "open"
    /\ IF ~args.pdf_bytes.readable
       THEN Raise("FileDataError") /\ UNCHANGED doc
       ELSE /\ doc' = [open |-> TRUE, pages |-> args.pdf_bytes.pages]
            /\ IF args.pdf_bytes.pages = <<>>
               THEN Raise("IndexError")
               ELSE pc' = "map" /\ UNCHANGED result
    /\ UNCHANGED <<args, geo, lay, debug_info>>
    /\ UNCHANGED outside

\* rotation, the visual rectangle, drawing_rect, debug_info (lines 35-65)
MapRect ==
    /\ pc = "map"
    /\ IF args.zoom[1] = 0
       THEN Raise("ZeroDivisionError") /\ UNCHANGED <<geo, debug_info>>
       ELSE LET page == doc.pages[1]
                v == VisualRect(args.canvas_x, args.canvas_y, args.canvas_w,
                                args.canvas_h, args.zoom)
                dr == DrawingRect(v, page)
            IN  /\ geo' = [rotation |-> page.rotation, visual |-> v, drawing_rect |-> dr]
                /\ debug_info' =
                     [rotation |-> page.rotation, zoom |-> args.zoom, visual |-> v,
                      canvas |-> <<args.canvas_x, args.canvas_y, args.canvas_w,
                                   args.canvas_h>>,
                      drawing_rect |-> dr,
                      drawing_size |-> <<RoundTenths(AsPoints(RectWidth(dr))),
                                         RoundTenths(AsPoints(RectHeight(dr)))>>]
                /\ pc' = "box"
                /\ UNCHANGED result
    /\ UNCHANGED <<args, doc, lay>>
    /\ UNCHANGED outside

\* a faulty DrawRect: a rectangle without area is not drawn
DrawRectIfVisible(contents, drawing_rect) ==
    IF RectIsEmpty(drawing_rect) THEN contents
    ELSE Append(contents, <<"rect", drawing_rect>>)

\* what shape.draw_rect, finish (black border, white fill) and commit add to the
\* page's content (lines 68-71)
DrawRect(contents, drawing_rect) == Append(contents, <<"rect", drawing_rect>>)

\* a faulty InsertTextbox: text that does not fit is written all the same
InsertTextboxAlways(contents, text_rect, lines, fontsize, text_rotate, rc) ==
    Append(contents, <<"text", text_rect, lines, fontsize, text_rotate>>)

\* what page.insert_textbox adds to the page's content (lines 130-138): the
\* text when it fits (rc >= 0), nothing when it does not (rc < 0)
InsertTextbox(contents, text_rect, lines, fontsize, text_rotate, rc) ==
    IF rc < 0 THEN contents
    ELSE Append(contents, <<"text", text_rect, lines, fontsize, text_rotate>>)

\* the engine stacks the lines along the rectangle's height, or along its width
\* when the text is rotated by 90 or 270, each line at least fontsize high:
\* the lines cannot fit when the rectangle has less room than that
MustOverflow(text_rect, lines, fontsize, text_rotate) ==
    LET room == IF text_rotate \in {90, 270} THEN RectWidth(text_rect)
                ELSE RectHeight(text_rect)
    IN  room * fontsize[2] < Len(lines) * fontsize[1] * Scale

\* the values insert_textbox can return for a rectangle that is not empty
TextboxRcs(text_rect, lines, fontsize, text_rotate) ==
    IF MustOverflow(text_rect, lines, fontsize, text_rotate) THEN {-1} ELSE {-1, 1}

\* shape.draw_rect(drawing_rect); finish; commit (lines 68-71)
DrawBox ==
    /\ pc = "box"
    /\ doc' = [doc EXCEPT !.pages[1].contents = DrawRect(@, geo.drawing_rect)]
    /\ pc' = "layout"
    /\ UNCHANGED <<args, geo, lay, debug_info, result>>
    /\ UNCHANGED outside

\* text_content, text_rotate, text_rect, fontsize, debug_info (lines 74-127)
Layout ==
    /\ pc = "layout"
    /\ LET lines == Lines(TextContent(args.commitment_id, args.cost_code, args.amount_due,
                                      args.retainage, args.approver, args.now))
           text_rotate == TextRotate(geo.rotation)
           text_rect == TextRect(geo.drawing_rect)
           alw == AvailableLineWidth(text_rect, text_rotate)
           fontsize == Fontsize(text_rect, text_rotate, lines)
       IN  /\ lay' = [lines |-> lines, text_rotate |-> text_rotate, text_rect |-> text_rect,
                      available_line_width |-> alw,
                      available_stack_height |-> AvailableStackHeight(text_rect, text_rotate),
                      fontsize |-> fontsize, rc |-> 0]
           /\ debug_info' = debug_info @@
                [text_rotate |-> text_rotate, text_rect |-> text_rect,
                 fontsize |-> RoundTenths(fontsize),
                 available_line_width |-> RoundTenths(AsPoints(alw))]
    /\ pc' = "text"
    /\ UNCHANGED <<args, doc, geo, result>>
    /\ UNCHANGED outside

\* rc = page.insert_textbox(...) (lines 130-140).  The engine refuses an
\* empty rectangle with ValueError; otherwise whether the text fits is decided
\* by its font metrics: rc < 0 and nothing written, or rc >= 0 and the text
\* written.
InsertText ==
    /\ pc = "text"
    /\ IF RectIsEmpty(lay.text_rect)
       THEN Raise("ValueError") /\ UNCHANGED <<doc, lay, debug_info>>
       ELSE \E rc \in TextboxRcs(lay.text_rect, lay.lines, lay.fontsize, lay.text_rotate) :
               /\ lay' = [lay EXCEPT !.rc = rc]
               /\ doc' = [doc EXCEPT !.pages[1].contents =
                            InsertTextbox(@, lay.text_rect, lay.lines, lay.fontsize,
                                          lay.text_rotate, rc)]
               /\ debug_info' = debug_info @@ [textbox_rc |-> rc]
               /\ pc' = "save"
               /\ UNCHANGED result
    /\ UNCHANGED <<args, geo>>
    /\ UNCHANGED outside

\* doc.save(output); doc.close(); return (lines 142-146)
Save ==
    /\ pc = "save"
    /\ result' = [kind |-> "returned", error |-> "", output |-> doc.pages]
    /\ doc' = [doc EXCEPT !.open = FALSE]
    /\ pc' = "done"
    /\ UNCHANGED <<args, geo, lay, debug_info>>
    /\ UNCHANGED outside

----------------------------------------------------------------------------
(* The read-only helpers of stamper.py.  Each is one straight run: the value   *)
(* of the operator is how the call left: what it returned or raised, and       *)
(* whether the document handle it opened is still open.                        *)

\* doc = fitz.open(...); page = doc[page_num]: the exception it raises, or
\* "" when the page is there (lines 151-152, 162-163, 172-173)
OpenPageError(pdf_bytes, page_num) ==
    IF ~pdf_bytes.readable THEN "FileDataError"
    ELSE IF page_num + 1 > Len(pdf_bytes.pages) THEN "IndexError"
    ELSE ""

\* how a helper leaves when opening the page raised: nothing was opened when
\* the bytes are unreadable; otherwise doc.close() is never reached
LeftRaising(error) ==
    [kind |-> "raised", error |-> error, value |-> <<>>, open |-> error # "FileDataError"]

\* get_pdf_preview(pdf_bytes, page_num, zoom), for zoom # 0 (lines 149-157):
\* the picture of the page's content, and its size in pixels
GetPdfPreview(pdf_bytes, page_num, zoom) ==
    LET error == OpenPageError(pdf_bytes, page_num)
        visual == VisualSize([pdf_bytes EXCEPT !.pages = <<@[page_num + 1]>>])
    IN  IF error # "" THEN LeftRaising(error)
        ELSE [kind |-> "returned", error |-> "",
              value |-> <<pdf_bytes.pages[page_num + 1].contents,
                          Abs(CanvasExtent(visual[1], zoom)),
                          Abs(CanvasExtent(visual[2], zoom))>>,
              open |-> FALSE]

\* get_pdf_dimensions(pdf_bytes, page_num) (lines 160-167)
GetPdfDimensions(pdf_bytes, page_num) ==
    LET error == OpenPageError(pdf_bytes, page_num)
    IN  IF error # "" THEN LeftRaising(error)
        ELSE [kind |-> "returned", error |-> "",
              value |-> VisualSize([pdf_bytes EXCEPT !.pages = <<@[page_num + 1]>>]),
              open |-> FALSE]

\* get_pdf_rotation(pdf_bytes, page_num) (lines 170-176)
GetPdfRotation(pdf_bytes, page_num) ==
    LET error == OpenPageError(pdf_bytes, page_num)
    IN  IF error # "" THEN LeftRaising(error)
        ELSE [kind |-> "returned", error |-> "",
              value |-> pdf_bytes.pages[page_num + 1].rotation, open |-> FALSE]

----------------------------------------------------------------------------
(* The generate stage of the wizard (app.py lines 562-591): one script run     *)
(* that calls stamp_pdf_at_position (the steps above) and, when the call has    *)
(* returned, stores its output and moves on to the preview stage.  Nothing      *)
(* catches an exception of the call: the script run ends there and the          *)
(* session is left as it was.                                                   *)

\* a faulty ShowPreview: the stage moves on whether the call returned or raised
ShowPreviewRegardless ==
    /\ pc \in {"done", "raised"}
    /\ session.stage = "generate"
    /\ session' = [session EXCEPT !.stage = "preview", !.output_bytes = result.output]
    /\ UNCHANGED <<stampVars, first, ncalls, lookupVars, px, inv, box>>

\* output_bytes, debug_info = <the returned pair>; the preview of the output is
\* rendered; stage = 'preview' (app.py lines 585-590)
ShowPreview ==
    /\ pc = "done"
    /\ session.stage = "generate"
    /\ LET output_bytes == [readable |-> TRUE, pages |-> result.output]
           preview == GetPdfPreview(output_bytes, 0, args.zoom)
       IN  /\ preview.kind = "returned"
           /\ session' = [session EXCEPT !.stage = "preview",
                                          !.output_bytes = result.output,
                                          !.preview_png = preview.value]
    /\ UNCHANGED <<stampVars, first, ncalls, lookupVars, px, inv, box>>

----------------------------------------------------------------------------
(* A run of calls of stamp_pdf_at_position, one after the other, in one        *)
(* process.  The function keeps nothing between calls: its state is its         *)
(* locals (lines 32-140), which are gone when it has left.  first remembers     *)
(* what the first call that reached the layout was given and what it computed.  *)

\* the pages, canvas rectangles and zooms of the calls of a run
RepeatPdfs == {[readable |-> TRUE, pages |-> <<NewPage(r, size)>>] :
                 r \in {0, 90}, size \in PageSizes}

RepeatCanvas == {<<50, 50, 80, 80>>, <<50, 50, 140, 80>>}

RepeatZooms == {<<1, 2>>, <<1, 1>>}

\* the caller invokes stamp_pdf_at_position (lines 12-25), in a run of calls
CallRepeat ==
    /\ pc = "idle"
    /\ ncalls < MaxCalls
    /\ \E pdf \in RepeatPdfs, zoom \in RepeatZooms, c \in RepeatCanvas,
          by \in Approvers, now \in Nows :
          args' = [pdf_bytes |-> pdf, commitment_id |-> <<"O", "A", "K", "H", "S">>,
                   cost_code |-> <<>>, amount_due |-> 693000, retainage |-> 0,
                   approver |-> by, canvas_x |-> c[1], canvas_y |-> c[2],
                   canvas_w |-> c[3], canvas_h |-> c[4], zoom |-> zoom, now |-> now]
    /\ pc' = "open"
    /\ UNCHANGED <<doc, geo, lay, debug_info, result>>
    /\ UNCHANGED outside

\* what a call was given and what it computed
CallRecord ==
    [finished |-> TRUE, pdf_bytes |-> args.pdf_bytes,
     canvas |-> <<args.canvas_x, args.canvas_y, args.canvas_w, args.canvas_h>>,
     zoom |-> args.zoom,
     content |-> <<args.commitment_id, args.cost_code, args.amount_due, args.retainage,
                   args.approver>>,
     now |-> args.now,
     drawing_rect |-> geo.drawing_rect, text_rotate |-> lay.text_rotate,
     fontsize |-> lay.fontsize]

\* the call has left, by return (line 146) or by an exception: its locals are
\* gone and the caller may call again
Return ==
    /\ pc \in {"done", "raised"}
    /\ pc' = "idle"
    /\ args' = NoArgs
    /\ doc' = [open |-> FALSE, pages |-> <<>>]
    /\ geo' = NoGeo
    /\ lay' = NoLay
    /\ debug_info' = <<>>
    /\ result' = NoResult
    /\ ncalls' = ncalls + 1
    /\ first' = IF ~first.finished /\ pc = "done" THEN CallRecord ELSE first
    /\ UNCHANGED <<session, lookupVars, px, inv, box>>

NextRepeat ==
    CallRepeat \/ Open \/ MapRect \/ DrawBox \/ Layout \/ InsertText \/ Save \/ Return

SpecRepeat == Init /\ [][NextRepeat]_vars

Next == Call \/ Open \/ MapRect \/ DrawBox \/ Layout \/ InsertText \/ Save \/ ShowPreview

Spec == Init /\ [][Next]_vars

----------------------------------------------------------------------------
(* modules/lookup.py: the vendor lookup and its module-level singleton.        *)
(* thefuzz (process.extractOne with fuzz.token_sort_ratio and                  *)
(* fuzz.partial_ratio) is a library outside the source: what extractOne gives  *)
(* is any of the choices with any score, or None when there is no choice.      *)

\* Python's None where a str is expected: no str is this value
None == <<"None">>

Uppers == <<"A", "B", "C", "D", "E", "F", "G", "H", "I", "J", "K", "L", "M",
            "N", "O", "P", "Q", "R", "S", "T", "U", "V", "W", "X", "Y", "Z">>

Lowers == <<"a", "b", "c", "d", "e", "f", "g", "h", "i", "j", "k", "l", "m",
            "n", "o", "p", "q", "r", "s", "t", "u", "v", "w", "x", "y", "z">>

\* str.lower()
Lower(s) ==
    [i \in DOMAIN s |->
        IF \E k \in DOMAIN Uppers : Uppers[k] = s[i]
        THEN Lowers[CHOOSE k \in DOMAIN Uppers : Uppers[k] = s[i]]
        ELSE s[i]]

\* the words (Corp|Corporation|Inc|LLC|Co\.?|Company|Ltd)\.? of line 58, in
\* lower case since the pattern ignores case
SuffixWords ==
    LET words == { <<"c", "o", "r", "p">>,
                   <<"c", "o", "r", "p", "o", "r", "a", "t", "i", "o", "n">>,
                   <<"i", "n", "c">>, <<"l", "l", "c">>, <<"c", "o">>, <<"c", "o", ".">>,
                   <<"c", "o", "m", "p", "a", "n", "y">>, <<"l", "t", "d">> }
    IN  words \cup {w \o <<".">> : w \in words}

\* re.sub(r'\s+(Corp|...|Ltd)\.?$', '', vendor_name, flags=re.IGNORECASE).strip()
\* (line 58): $ is the end of the string or the place before a final line
\* break; the match is the last word, when it is one of the suffix words and
\* white space stands before it, together with that white space
Normalized(vendor_name) ==
    LET s == IF vendor_name # <<>> /\ vendor_name[Len(vendor_name)] = NL
             THEN SubSeq(vendor_name, 1, Len(vendor_name) - 1) ELSE vendor_name
        start == CHOOSE i \in 1..(Len(s) + 1) :
                    /\ \A j \in i..Len(s) : ~IsSpace(s[j])
                    /\ i > 1 => IsSpace(s[i - 1])
    IN  IF start > 1 /\ Lower(SubSeq(s, start, Len(s))) \in SuffixWords
        THEN Strip(SubSeq(s, 1, start - 1))
        ELSE Strip(vendor_name)

\* the rows whose vendor equals the name, case ignored (line 62)
ExactMatches(rows, name_to_try) ==
    {i \in DOMAIN rows : Lower(rows[i].vendor) = Lower(name_to_try)}

\* x if x else None (lines 65-66 and 99-100)
OrNone(x) == IF x = <<>> THEN None ELSE x

\* the triple returned for a row (lines 63-69 and 97-103)
RowCodes(row) ==
    [commitment_id |-> OrNone(row.commitment_id), cost_code |-> OrNone(row.cost_code),
     matched_vendor |-> row.vendor]

NoCodes == [commitment_id |-> None, cost_code |-> None, matched_vendor |-> None]

\* what process.extractOne can give for these choices: None, or a choice and
\* its score
NoChoice == [found |-> FALSE, vendor |-> None, score |-> 0]

Scores == {0, 75, 100}

ExtractOne(vendors) ==
    IF vendors = <<>> THEN {NoChoice}
    ELSE {[found |-> TRUE, vendor |-> vendors[i], score |-> sc] :
             i \in DOMAIN vendors, sc \in Scores}

RECURSIVE BestOf(_, _)
\* the loop of lines 75-94 over the results, in the order they are computed:
\* a result replaces the best so far when its score is greater
BestOf(results, best) ==
    IF results = <<>> THEN best
    ELSE BestOf(Tail(results),
                IF Head(results).found /\ Head(results).score > best.score
                THEN Head(results) ELSE best)

\* a faulty Accepted: the threshold is not looked at
AcceptedWhateverScore(best, threshold) == best.found

\* if best_match and best_score >= threshold (line 96)
Accepted(best, threshold) == best.found /\ best.score >= threshold

\* get_codes(vendor_name, threshold) on the rows of the CSV (lines 41-105);
\* results are what the four calls of extractOne gave
GetCodes(rows, vendor_name, threshold, results) ==
    LET normalized == Normalized(vendor_name)
        exact1 == ExactMatches(rows, vendor_name)
        exact2 == ExactMatches(rows, normalized)
        best == BestOf(results, NoChoice)
    IN  IF vendor_name = <<>> THEN NoCodes
        ELSE IF exact1 # {} THEN RowCodes(rows[SetMin(exact1)])
        ELSE IF exact2 # {} THEN RowCodes(rows[SetMin(exact2)])
        ELSE IF Accepted(best, threshold)
             THEN RowCodes(rows[SetMin({i \in DOMAIN rows : rows[i].vendor = best.vendor})])
        ELSE NoCodes

\* whether get_codes comes to the fuzzy matching of lines 72-94
ReachesFuzzy(rows, vendor_name) ==
    /\ vendor_name # <<>>
    /\ ExactMatches(rows, vendor_name) = {}
    /\ ExactMatches(rows, Normalized(vendor_name)) = {}

\* rows of data/commitments.csv as __init__ cleans them (lines 30-36)
Row(commitment_id, vendor, cost_code) ==
    [commitment_id |-> commitment_id, vendor |-> vendor, cost_code |-> cost_code]

AbInc == <<"A", "b", " ", "I", "n", "c">>

CsvTables ==
    { <<>>,
      <<Row(<<"O", "A", "K">>, AbInc, <<"2", "3">>), Row(<<>>, <<"C", "d">>, <<>>)>>,
      <<Row(<<>>, Lower(AbInc), <<"9">>), Row(<<"O", "A", "K">>, AbInc, <<"2", "3">>)>>,
      <<Row(<<"X">>, <<>>, <<>>), Row(<<"Y">>, <<"C", "d">>, <<"7">>)>> }

\* vendor names asked for: empty, a vendor of the CSV, the same in capitals,
\* with another suffix, a suffix with a dot, an unknown name, a lone suffix
\* behind white space, a name with a final line break
VendorNames ==
    { <<>>, AbInc, <<"A", "B", " ", "I", "N", "C">>, <<"a", "b", " ", "L", "L", "C">>,
      <<"C", "d", " ", " ", "C", "o", ".">>, <<"X", "y">>, <<" ", "I", "n", "c">>,
      <<"C", "D", " ", "L", "t", "d", NL>> }

\* thresholds: the default 70 of get_codes and the default 80 of lookup_vendor
Thresholds == {70, 80}

\* construction attempts made while none has succeeded are counted up to here
MaxAttempts == 2

\* a faulty NeedsInstance: an instance is constructed at every call
NeedsInstanceAlways(instance) == TRUE

\* if _lookup_instance is None (line 119)
NeedsInstance(instance) == instance = NoInstance

\* what VendorLookup() can do (lines 18-39): raise, when the CSV cannot be
\* read, or give a new object holding the rows of the CSV
Constructions ==
    {[raised |-> TRUE, instance |-> NoInstance]}
    \cup {[raised |-> FALSE, instance |-> [id |-> Len(constructed) + 1, rows |-> rows]] :
             rows \in CsvTables}

\* get_lookup() (lines 116-121): c is what VendorLookup() does if it is called
AfterGetLookup(c) ==
    IF ~NeedsInstance(lookup_instance)
    THEN [raised |-> FALSE, instance |-> lookup_instance, constructed |-> constructed]
    ELSE [raised |-> c.raised, instance |-> c.instance,
          constructed |-> Append(constructed, IF c.raised THEN 0 ELSE c.instance.id)]

LookupCall(op, g, vendor_name, threshold, results, value) ==
    [op |-> op, kind |-> IF g.raised THEN "raised" ELSE "returned",
     instance |-> g.instance.id, vendor_name |-> vendor_name, threshold |-> threshold,
     results |-> results, value |-> value]

\* a caller calls get_lookup() (app.py line 252)
GetLookup ==
    /\ lk = NoLookup
    /\ \E c \in Constructions :
          LET g == AfterGetLookup(c)
          IN  /\ Len(g.constructed) <= MaxAttempts
              /\ lookup_instance' = g.instance
              /\ constructed' = g.constructed
              /\ lk' = LookupCall("get_lookup", g, <<>>, 0, <<>>, NoCodes)
    /\ UNCHANGED <<stampVars, session, first, ncalls, px, inv, box>>

\* a caller calls lookup_vendor(vendor_name, threshold) (lines 124-131;
\* app.py line 187)
LookupVendor ==
    /\ lk = NoLookup
    /\ \E c \in Constructions, vendor_name \in VendorNames, threshold \in Thresholds :
          LET g == AfterGetLookup(c)
              rows == g.instance.rows
              vendors == [i \in DOMAIN rows |-> rows[i].vendor]
          IN  /\ Len(g.constructed) <= MaxAttempts
              /\ lookup_instance' = g.instance
              /\ constructed' = g.constructed
              /\ IF g.raised
                 THEN lk' = LookupCall("lookup_vendor", g, vendor_name, threshold, <<>>, NoCodes)
                 ELSE IF ~ReachesFuzzy(rows, vendor_name)
                 THEN lk' = LookupCall("lookup_vendor", g, vendor_name, threshold, <<>>,
                                       GetCodes(rows, vendor_name, threshold, <<>>))
                 ELSE \E r1 \in ExtractOne(vendors), r2 \in ExtractOne(vendors),
                         r3 \in ExtractOne(vendors), r4 \in ExtractOne(vendors) :
                         lk' = LookupCall("lookup_vendor", g, vendor_name, threshold,
                                          <<r1, r2, r3, r4>>,
                                          GetCodes(rows, vendor_name, threshold,
                                                   <<r1, r2, r3, r4>>))
    /\ UNCHANGED <<stampVars, session, first, ncalls, px, inv, box>>

\* the caller has what the call gave, or its exception, and goes on
LookupLeft ==
    /\ lk # NoLookup
    /\ lk' = NoLookup
    /\ UNCHANGED <<stampVars, session, first, ncalls, px, inv, box, lookup_instance, constructed>>

NextLookup == GetLookup \/ LookupVendor \/ LookupLeft

SpecLookup == Init /\ [][NextLookup]_vars

----------------------------------------------------------------------------
(* modules/parser.py: extract_retainage.  The OCR text is a sequence of        *)
(* lines, each a label followed by an amount that may or may not carry a $     *)
(* and may or may not have digits.  Amounts are in cents; NoAmount is          *)
(* Python's None.                                                              *)

NoAmount == -1

\* the first line from line i on that has a $, or 0: what [^$]*\$ runs to
FirstDollarFrom(text, i) ==
    IF \E j \in i..Len(text) : text[j].dollar
    THEN CHOOSE j \in i..Len(text) : text[j].dollar /\ \A k \in i..(j - 1) : ~text[k].dollar
    ELSE 0

\* re.search of <label>[^$]*\$\s*([\d,]+\.?\d*): the leftmost of the labels
\* whose next $ is followed by digits; the value is parse_currency of the
\* digits (lines 23-37), NoAmount when nothing matches
AmountAfterLabel(text, labels) ==
    LET starts == {i \in DOMAIN text :
                     /\ text[i].label \in labels
                     /\ FirstDollarFrom(text, i) # 0
                     /\ text[FirstDollarFrom(text, i)].amount # NoAmount}
    IN  IF starts = {} THEN NoAmount
        ELSE text[FirstDollarFrom(text, SetMin(starts))].amount

\* re.search of <label>\s*\$\s*([\d,]+\.?\d*) and of <label>.*?\$\s*(...): the
\* $ and the digits are on the label's own line
AmountOnLine(text, labels) ==
    LET starts == {i \in DOMAIN text :
                     text[i].label \in labels /\ text[i].dollar /\ text[i].amount # NoAmount}
    IN  IF starts = {} THEN NoAmount ELSE text[SetMin(starts)].amount

\* extract_total_earned_less_retainage (lines 124-140): the first pattern that
\* matches gives the value; the second pattern matches only where the first
\* does
ExtractTotalEarnedLessRetainage(text) ==
    IF AmountAfterLabel(text, {"TOTAL EARNED LESS RETAINAGE"}) # NoAmount
    THEN AmountAfterLabel(text, {"TOTAL EARNED LESS RETAINAGE"})
    ELSE AmountOnLine(text, {"Line 6"})

\* Method 1 (lines 153-167): the three patterns in order; RETAINAGE, case
\* ignored, is also found inside the two longer labels; an amount counts only
\* when it is positive
ExplicitRetainage(text) ==
    LET found == <<AmountOnLine(text, {"RET:"}),
                   AmountAfterLabel(text, {"Total Retainage"}),
                   AmountAfterLabel(text, {"Total Retainage", "TOTAL EARNED LESS RETAINAGE"})>>
        positive == {k \in 1..3 : found[k] > 0}
    IN  IF positive = {} THEN NoAmount ELSE found[SetMin(positive)]

\* Method 2 (lines 169-174): total_completed - total_earned_less_ret when both
\* are there and not zero, and the difference is positive
RetainageByDifference(text, total_completed) ==
    LET total_earned_less_ret == ExtractTotalEarnedLessRetainage(text)
    IN  IF total_completed > 0 /\ total_earned_less_ret > 0
           /\ total_completed - total_earned_less_ret > 0
        THEN total_completed - total_earned_less_ret
        ELSE NoAmount

\* extract_retainage(text, total_completed) (lines 143-176)
ExtractRetainageValue(text, total_completed) ==
    IF ExplicitRetainage(text) # NoAmount THEN ExplicitRetainage(text)
    ELSE IF RetainageByDifference(text, total_completed) # NoAmount
    THEN RetainageByDifference(text, total_completed)
    ELSE NoAmount

\* texts of up to MaxTextLines lines
MaxTextLines == 2

\* the labels the patterns of lines 129-133 and 154-161 look for, and one
\* they do not; amounts without digits, zero, 770.00 and 6,930.00
TextLines ==
    {[label |-> label, dollar |-> dollar, amount |-> amount] :
        label \in {"RET:", "Total Retainage", "TOTAL EARNED LESS RETAINAGE", "Line 6",
                   "BALANCE TO FINISH"},
        dollar \in BOOLEAN, amount \in {NoAmount, 0, 77000, 693000}}

Texts == UNION {[1..n -> TextLines] : n \in 0..MaxTextLines}

\* total_completed: None, zero, 7,700.00
TotalsCompleted == {NoAmount, 0, 770000}

\* a caller calls extract_retainage(text, total_completed) (line 217)
ExtractRetainage ==
    /\ px = NoExtract
    /\ \E text \in Texts, total_completed \in TotalsCompleted :
          px' = [op |-> "extract_retainage", text |-> text,
                 total_completed |-> total_completed,
                 value |-> ExtractRetainageValue(text, total_completed)]
    /\ UNCHANGED <<stampVars, session, first, ncalls, lookupVars, inv, box>>

\* the caller has the value and goes on
ExtractLeft ==
    /\ px # NoExtract
    /\ px' = NoExtract
    /\ UNCHANGED <<stampVars, session, first, ncalls, lookupVars, inv, box>>

NextParser == ExtractRetainage \/ ExtractLeft

SpecParser == Init /\ [][NextParser]_vars

----------------------------------------------------------------------------
(* modules/parser.py: parse_invoice, and process_invoice of app.py.  The    *)
(* lines of an invoice text carry two more facts: whether the amount is     *)
(* written with two decimals as the last thing on its line (end2), and the  *)
(* value that follows a stamp label (code).  The Decimal amounts of an      *)
(* InvoiceData are exact; they are counted in tenths of a cent, so that 90% *)
(* and 10% of an amount of whole cents are whole numbers.                   *)

\* re.search of <label>\s*\$?\s*([\d,]+\.?\d*): the leftmost of the labels
\* that is followed by digits, with or without a $
AmountRightAfter(text, labels) ==
    LET starts == {i \in DOMAIN text : text[i].label \in labels /\ text[i].amount # NoAmount}
    IN  IF starts = {} THEN NoAmount ELSE text[SetMin(starts)].amount

\* re.search, with re.MULTILINE, of \$\s*([\d,]+\.[\d]{2})\s*\]?\s*$ (line 112):
\* the first line that ends with a $ amount of two decimals
AmountEndingLine(text) ==
    LET starts == {i \in DOMAIN text :
                     text[i].dollar /\ text[i].end2 /\ text[i].amount # NoAmount}
    IN  IF starts = {} THEN NoAmount ELSE text[SetMin(starts)].amount

\* extract_total_completed (lines 79-95): the first pattern that matches gives
\* the value, zero included
ExtractTotalCompleted(text) ==
    LET found == <<AmountRightAfter(text, {"TOTAL COMPLETED & STORED TO DATE"}),
                   AmountOnLine(text, {"4. TOTAL COMPLETED"}),
                   AmountOnLine(text, {"Line 4"})>>
        matched == {k \in 1..3 : found[k] # NoAmount}
    IN  IF matched = {} THEN NoAmount ELSE found[SetMin(matched)]

\* extract_current_payment_due (lines 98-121): the first of the four patterns
\* whose match is a positive amount
ExtractCurrentPaymentDue(text) ==
    LET found == <<AmountOnLine(text, {"DUE:"}),
                   AmountRightAfter(text, {"8. CURRENT PAYMENT DUE"}),
                   AmountRightAfter(text, {"8. CURRENT PAYMENT DUE", "CURRENT PAYMENT DUE"}),
                   AmountEndingLine(text)>>
        positive == {k \in 1..4 : found[k] > 0}
    IN  IF positive = {} THEN NoAmount ELSE found[SetMin(positive)]

\* extract_existing_stamp (lines 179-196) and dict.get (lines 239-240): the
\* value after the first of the labels, None when the label is not there
StampValue(text, labels) ==
    LET starts == {i \in DOMAIN text : text[i].label \in labels /\ text[i].code # <<>>}
    IN  IF starts = {} THEN None ELSE text[SetMin(starts)].code

\* the amount due written with 90% whatever retainage was found
NinetyPercent(total_completed, retainage) == 9 * total_completed

\* current_payment of lines 221-225, in tenths of a cent: total - retainage
\* when there is a retainage, 90% of the total when there is none
AmountDueFallback(total_completed, retainage) ==
    IF retainage # NoAmount
    THEN 10 * (total_completed - retainage)
    ELSE 9 * total_completed

\* parse_invoice(text) (lines 199-242) without vendor_name and raw_text; the
\* amounts of the result are in tenths of a cent
ParseInvoice(text) ==
    LET total_completed == ExtractTotalCompleted(text)
        current_payment == ExtractCurrentPaymentDue(text)
        retainage == ExtractRetainageValue(text, total_completed)
        found_total == total_completed # NoAmount /\ total_completed # 0
    IN  [total_completed |-> IF found_total THEN 10 * total_completed ELSE 0,
         amount_due |->
             IF current_payment # NoAmount THEN 10 * current_payment
             ELSE IF found_total THEN AmountDueFallback(total_completed, retainage)
             ELSE 0,
         retainage |->
             IF retainage # NoAmount THEN 10 * retainage
             ELSE IF found_total THEN total_completed
             ELSE 0,
         commitment_id |-> StampValue(text, {"COM:"}),
         cost_code |-> StampValue(text, {"C.C:"})]

\* the lookup's value written over the parsed one whatever it is
LookupAlways(parsed, looked) == looked

\* if com_id: invoice_data.commitment_id = com_id, and the same for cost_code
\* (app.py lines 187-190)
Merged(parsed, looked) == IF looked # None /\ looked # <<>> THEN looked ELSE parsed

\* process_invoice (app.py lines 183-192) on the OCR text of the PDF and on
\* what lookup_vendor gave
ProcessInvoice(text, looked) ==
    LET invoice_data == ParseInvoice(text)
    IN  [invoice_data |->
             [invoice_data EXCEPT
                 !.commitment_id = Merged(invoice_data.commitment_id, looked.commitment_id),
                 !.cost_code = Merged(invoice_data.cost_code, looked.cost_code)],
         matched_vendor |-> looked.matched_vendor]

\* texts of up to MaxInvoiceLines lines
MaxInvoiceLines == 3

InvoiceLine(label, dollar, amount, end2, code) ==
    [label |-> label, dollar |-> dollar, amount |-> amount, end2 |-> end2, code |-> code]

\* total completed 7,700.00 without a $, 7,700.05, zero, and $ 7,700.00 ending
\* its line; current payment due; a retainage of 1,000.00 followed by more text
\* and one ending its line; total earned less retainage; the two stamp labels
InvoiceLines ==
    { InvoiceLine("TOTAL COMPLETED & STORED TO DATE", FALSE, 770000, FALSE, <<>>),
      InvoiceLine("TOTAL COMPLETED & STORED TO DATE", FALSE, 770005, FALSE, <<>>),
      InvoiceLine("TOTAL COMPLETED & STORED TO DATE", FALSE, 0, FALSE, <<>>),
      InvoiceLine("TOTAL COMPLETED & STORED TO DATE", TRUE, 770000, TRUE, <<>>),
      InvoiceLine("CURRENT PAYMENT DUE", TRUE, 693000, TRUE, <<>>),
      InvoiceLine("Total Retainage", TRUE, 100000, FALSE, <<>>),
      InvoiceLine("Total Retainage", TRUE, 100000, TRUE, <<>>),
      InvoiceLine("TOTAL EARNED LESS RETAINAGE", TRUE, 693000, FALSE, <<>>),
      InvoiceLine("COM:", FALSE, NoAmount, FALSE, <<"O", "A", "K", "H", "S">>),
      InvoiceLine("C.C:", FALSE, NoAmount, FALSE, <<"2", "3", "-", "3">>) }

InvoiceTexts == UNION {[1..n -> InvoiceLines] : n \in 0..MaxInvoiceLines}

\* what lookup_vendor can give (lookup.py lines 124-127): no match, or the
\* codes of a row of the CSV
LookupValues == {NoCodes} \cup {RowCodes(rows[i]) : rows \in CsvTables \ {<<>>}, i \in 1..2}

\* the upload stage calls process_invoice (app.py line 237); the OCR gave text
\* and the lookup gave looked, or get_lookup raised (lookup.py line 30: the CSV
\* cannot be read) and process_invoice raises with it, returning nothing
CallProcessInvoice ==
    /\ inv.op = "none"
    /\ \E text \in InvoiceTexts :
          \/ \E looked \in LookupValues :
                inv' = [op |-> "process_invoice", raised |-> FALSE, text |-> text,
                        looked |-> looked, parsed |-> ParseInvoice(text),
                        value |-> ProcessInvoice(text, looked)]
          \/ inv' = [op |-> "process_invoice", raised |-> TRUE, text |-> text,
                     looked |-> NoCodes, parsed |-> ParseInvoice(text), value |-> <<>>]
    /\ UNCHANGED <<stampVars, session, first, ncalls, lookupVars, px, box>>

\* the caller has the value and goes on
InvoiceLeft ==
    /\ inv.op # "none"
    /\ inv' = NoInvoice
    /\ UNCHANGED <<stampVars, session, first, ncalls, lookupVars, px, box>>

NextInvoice == CallProcessInvoice \/ InvoiceLeft

SpecInvoice == Init /\ [][NextInvoice]_vars

----------------------------------------------------------------------------
(* The wizard of app.py: st.session_state and the six stages of main.  A    *)
(* key that is missing or None is the empty sequence, a key that is set is  *)
(* the one-element sequence of its value; output_bytes and preview_png are  *)
(* as in the generate stage above.  An action is one script run: what the   *)
(* stage's code does before its buttons and what the clicked button does.   *)
(* SpecWizard runs the wizard from a new session; its generate stage is the *)
(* call of stamp_pdf_at_position, step by step, and ShowPreview.            *)

\* a new session after the defaults of lines 196-210
FreshSession ==
    [stage |-> "upload", pdf_bytes |-> <<>>, invoice_data |-> <<>>, final_data |-> <<>>,
     stamp |-> <<50, 50, 140, 80>>, zoom |-> <<1, 1>>,
     output_bytes |-> <<>>, preview_png |-> <<>>]

WizardInit ==
    /\ pc = "idle"
    /\ args = NoArgs
    /\ doc = [open |-> FALSE, pages |-> <<>>]
    /\ geo = NoGeo
    /\ lay = NoLay
    /\ debug_info = <<>>
    /\ result = NoResult
    /\ session = FreshSession
    /\ first = NoCall
    /\ ncalls = 0
    /\ lookup_instance = NoInstance
    /\ constructed = <<>>
    /\ lk = NoLookup
    /\ px = NoExtract
    /\ inv = NoInvoice
    /\ box = NoBox

\* uploaded files: bytes that are no PDF, and one-page documents 800 x 400
\* points, unrotated and rotated by 90
WizardPdfs ==
    {[readable |-> FALSE, pages |-> <<>>]}
    \cup {[readable |-> TRUE, pages |-> <<NewPage(r, <<800, 400>>)>>] : r \in {0, 90}}

\* OCR texts of the uploads: nothing legible, and a total with a stamp
WizardTexts ==
    { <<>>,
      <<InvoiceLine("TOTAL COMPLETED & STORED TO DATE", FALSE, 770000, FALSE, <<>>),
        InvoiceLine("COM:", FALSE, NoAmount, FALSE, <<"O", "A", "K", "H", "S">>)>> }

\* what the verify form can hold when Next is clicked (lines 300-336): a
\* commitment ID or none, no cost code, the amounts in cents
FinalDatas ==
    {[commitment_id |-> id, cost_code |-> <<>>, amount_due |-> 693000, retainage |-> 0] :
        id \in {<<>>, <<"O", "A", "K", "H", "S">>}}

\* what lookup_vendor gave for the uploads: no match, and a row with both codes
WizardLookups == {NoCodes, RowCodes(Row(<<"O", "A", "K">>, AbInc, <<"2", "3">>))}

\* what localStorage's stampPosition can hold when the position stage reads it:
\* the default box, the smallest box in the corner, a box far right and down
StoredBoxes == {<<50, 50, 140, 80>>, <<0, 0, 60, 40>>, <<660, 320, 140, 80>>}

\* the upload stage with a file in the uploader (lines 233-243); extract_text
\* raises on bytes that are no PDF, and get_lookup can raise (lookup.py line 30)
Upload ==
    /\ session.stage = "upload"
    /\ \E pdf \in WizardPdfs :
          \/ session' = [session EXCEPT !.pdf_bytes = <<pdf>>]
          \/ /\ pdf.readable
             /\ \E text \in WizardTexts, looked \in WizardLookups :
                   session' = [session EXCEPT !.pdf_bytes = <<pdf>>,
                                              !.invoice_data = <<ProcessInvoice(text, looked)>>,
                                              !.stage = "verify"]
    /\ UNCHANGED <<stampVars, first, ncalls, lookupVars, px, inv, box>>

\* the verify stage, Back (lines 370-372)
VerifyBack ==
    /\ session.stage = "verify"
    /\ session' = [session EXCEPT !.stage = "upload"]
    /\ UNCHANGED <<stampVars, first, ncalls, lookupVars, px, inv, box>>

\* the verify stage, Next: Place Stamp (lines 374-383)
VerifyNext ==
    /\ session.stage = "verify"
    /\ \E final \in FinalDatas :
          session' = [session EXCEPT !.final_data = <<final>>, !.stage = "position"]
    /\ UNCHANGED <<stampVars, first, ncalls, lookupVars, px, inv, box>>

\* what the position stage does before its buttons: zoom = 800 / pdf_width is
\* stored (lines 410-412) and the position read from localStorage, when one
\* came, is stored (lines 529-542)
PositionRun(s, pos) ==
    [s EXCEPT !.zoom = <<800, GetPdfDimensions(s.pdf_bytes[1], 0).value[1]>>,
              !.stamp = pos]

\* the position stage, Back (lines 548-550)
PositionBack ==
    /\ session.stage = "position"
    /\ \E pos \in {session.stamp} \cup StoredBoxes :
          session' = [PositionRun(session, pos) EXCEPT !.stage = "verify"]
    /\ UNCHANGED <<stampVars, first, ncalls, lookupVars, px, inv, box>>

\* the position stage, Lock Position (lines 552-554), and the script runs that
\* the arrival of the position starts
LockPosition ==
    /\ session.stage = "position"
    /\ \E pos \in {session.stamp} \cup StoredBoxes :
          session' = PositionRun(session, pos)
    /\ UNCHANGED <<stampVars, first, ncalls, lookupVars, px, inv, box>>

\* the position stage, Apply Stamp (lines 556-559); the locals of an earlier
\* call of stamp_pdf_at_position are gone, ncalls counts it
ApplyStamp ==
    /\ session.stage = "position"
    /\ ncalls < MaxCalls
    /\ \E pos \in {session.stamp} \cup StoredBoxes :
          session' = [PositionRun(session, pos) EXCEPT !.stage = "generate"]
    /\ pc' = "idle"
    /\ args' = NoArgs
    /\ doc' = [open |-> FALSE, pages |-> <<>>]
    /\ geo' = NoGeo
    /\ lay' = NoLay
    /\ debug_info' = <<>>
    /\ result' = NoResult
    /\ ncalls' = IF pc \in {"done", "raised"} THEN ncalls + 1 ELSE ncalls
    /\ UNCHANGED <<first, lookupVars, px, inv, box>>

\* a faulty StampSource: the last output is stamped again
StampPreviousOutput(s) ==
    IF s.output_bytes # <<>> THEN [readable |-> TRUE, pages |-> s.output_bytes]
    ELSE s.pdf_bytes[1]

\* pdf_bytes=st.session_state.pdf_bytes (line 571)
StampSource(s) == s.pdf_bytes[1]

\* the generate stage calls stamp_pdf_at_position (lines 568-583)
Generate ==
    /\ session.stage = "generate"
    /\ pc = "idle"
    /\ \E now \in Nows :
          LET final == session.final_data[1]
          IN  args' = [pdf_bytes |-> StampSource(session),
                       commitment_id |-> final.commitment_id, cost_code |-> final.cost_code,
                       amount_due |-> final.amount_due, retainage |-> final.retainage,
                       approver |-> <<"A", "l", "a", "n", " ", "S", "a", "r", " ", "S", "h",
                                      "a", "l", "o", "m">>,
                       canvas_x |-> session.stamp[1], canvas_y |-> session.stamp[2],
                       canvas_w |-> session.stamp[3], canvas_h |-> session.stamp[4],
                       zoom |-> session.zoom, now |-> now]
    /\ pc' = "open"
    /\ UNCHANGED <<doc, geo, lay, debug_info, result>>
    /\ UNCHANGED outside

\* the preview stage, Move Stamp (lines 611-613)
MoveStamp ==
    /\ session.stage = "preview"
    /\ session' = [session EXCEPT !.stage = "position"]
    /\ UNCHANGED <<stampVars, first, ncalls, lookupVars, px, inv, box>>

\* the preview stage, Looks Good! (lines 615-617)
LooksGood ==
    /\ session.stage = "preview"
    /\ session' = [session EXCEPT !.stage = "download"]
    /\ UNCHANGED <<stampVars, first, ncalls, lookupVars, px, inv, box>>

\* the download stage, Adjust Stamp (lines 652-654)
AdjustStamp ==
    /\ session.stage = "download"
    /\ session' = [session EXCEPT !.stage = "position"]
    /\ UNCHANGED <<stampVars, first, ncalls, lookupVars, px, inv, box>>

\* a faulty ProcessAnother: back to upload with the keys left as they are
ProcessAnotherKeepingData ==
    /\ session.stage = "download"
    /\ session' = [session EXCEPT !.stage = "upload"]
    /\ UNCHANGED <<stampVars, first, ncalls, lookupVars, px, inv, box>>

\* the download stage, Process Another Invoice (lines 656-659): every key is
\* deleted, and the script run that follows sets the defaults of lines 196-210
ProcessAnother ==
    /\ session.stage = "download"
    /\ session' = FreshSession
    /\ UNCHANGED <<stampVars, first, ncalls, lookupVars, px, inv, box>>

NextWizard ==
    \/ Upload \/ VerifyBack \/ VerifyNext
    \/ PositionBack \/ LockPosition \/ ApplyStamp
    \/ Generate \/ Open \/ MapRect \/ DrawBox \/ Layout \/ InsertText \/ Save \/ ShowPreview
    \/ MoveStamp \/ LooksGood \/ AdjustStamp \/ ProcessAnother

SpecWizard == WizardInit /\ [][NextWizard]_vars

----------------------------------------------------------------------------
(* The canvas of the position stage (app.py lines 420-526): the script of   *)
(* canvas_html.  box holds the style of #stamp-box in pixels, the script's  *)
(* variables, the size of the preview image and what the script last wrote  *)
(* to localStorage; last tells which branch of the mousemove handler ran    *)
(* last, resized whether the resize branch ever ran.  Mouse positions are   *)
(* whole pixels, so every parseFloat and Math.round is the identity.        *)

MinBoxWidth == 60

MinBoxHeight == 40

\* Math.max(0, Math.min(start + delta, extent - size)) (lines 504-505)
DragTo(start, delta, extent, size) == Max2(0, Min2(start + delta, extent - size))

\* a resize without the least size
ResizedFreely(least, start, delta) == start + delta

\* Math.max(60, startWidth + dx) and its likes (lines 512-515)
Resized(least, start, delta) == Max2(least, start + delta)

\* resizeDir.includes(c)
Includes(dir, c) == \E i \in DOMAIN dir : dir[i] = c

\* what a visit of the position stage sees: at most MaxMouseDowns presses
MaxMouseDowns == 2

\* sizes of the preview image in pixels: of a page twice as wide as high, and
\* of a page eight times as wide as high
CanvasSizes == {<<800, 400>>, <<800, 100>>}

\* clientX and clientY of the mouse events
MouseXs == {0, 50, 120, 800}

MouseYs == {0, 50, 90, 400}

\* the position stage shows the canvas (lines 421-424, 460, 474, 489): the box
\* is where the session has it, nothing is pressed
ShowCanvas ==
    /\ ~box.shown
    /\ \E size \in CanvasSizes, init \in StoredBoxes :
          box' = [shown |-> TRUE, left |-> init[1], top |-> init[2],
                  width |-> init[3], height |-> init[4],
                  isDragging |-> FALSE, isResizing |-> FALSE, resizeDir |-> <<>>,
                  startX |-> 0, startY |-> 0, startLeft |-> 0, startTop |-> 0,
                  startWidth |-> 0, startHeight |-> 0,
                  canvas_width |-> size[1], canvas_height |-> size[2],
                  stored |-> init, last |-> "none", resized |-> FALSE, downs |-> 0]
    /\ UNCHANGED <<stampVars, session, first, ncalls, lookupVars, px, inv>>

\* mousedown on the box (lines 491-500): on one of the four handles, which sit
\* on the corners, or on the body
MouseDown ==
    /\ box.shown
    /\ box.downs < MaxMouseDowns
    /\ \E x \in MouseXs, y \in MouseYs, target \in {<<>>, <<"n", "w">>, <<"n", "e">>,
                                                   <<"s", "w">>, <<"s", "e">>} :
          /\ IF target = <<>>
             THEN /\ box.left <= x /\ x <= box.left + box.width
                  /\ box.top <= y /\ y <= box.top + box.height
             ELSE /\ x = IF Includes(target, "w") THEN box.left ELSE box.left + box.width
                  /\ y = IF Includes(target, "n") THEN box.top ELSE box.top + box.height
          /\ box' = [box EXCEPT
                       !.isResizing = IF target # <<>> THEN TRUE ELSE @,
                       !.resizeDir = IF target # <<>> THEN target ELSE @,
                       !.isDragging = IF target = <<>> THEN TRUE ELSE @,
                       !.startX = x, !.startY = y,
                       !.startLeft = box.left, !.startTop = box.top,
                       !.startWidth = box.width, !.startHeight = box.height,
                       !.downs = @ + 1]
    /\ UNCHANGED <<stampVars, session, first, ncalls, lookupVars, px, inv>>

\* mousemove on the document while something is pressed (lines 502-520): the
\* drag branch, then the resize branch, each followed by updatePosition
\* (lines 477-487)
MouseMove ==
    /\ box.shown
    /\ box.isDragging \/ box.isResizing
    /\ \E x \in MouseXs, y \in MouseYs :
          LET dx == x - box.startX
              dy == y - box.startY
              dragged ==
                  IF box.isDragging
                  THEN [box EXCEPT
                          !.left = DragTo(box.startLeft, dx, box.canvas_width, box.width),
                          !.top = DragTo(box.startTop, dy, box.canvas_height, box.height)]
                  ELSE box
              e == Includes(box.resizeDir, "e")
              w == Includes(box.resizeDir, "w")
              s == Includes(box.resizeDir, "s")
              n == Includes(box.resizeDir, "n")
              newW == IF w THEN Resized(MinBoxWidth, box.startWidth, -dx)
                      ELSE IF e THEN Resized(MinBoxWidth, box.startWidth, dx)
                      ELSE box.startWidth
              newL == IF w THEN box.startLeft + box.startWidth - newW ELSE box.startLeft
              newH == IF n THEN Resized(MinBoxHeight, box.startHeight, -dy)
                      ELSE IF s THEN Resized(MinBoxHeight, box.startHeight, dy)
                      ELSE box.startHeight
              newT == IF n THEN box.startTop + box.startHeight - newH ELSE box.startTop
              moved ==
                  IF box.isResizing
                  THEN [dragged EXCEPT !.width = newW, !.height = newH,
                                       !.left = newL, !.top = newT]
                  ELSE dragged
          IN  box' = [moved EXCEPT
                        !.stored = <<moved.left, moved.top, moved.width, moved.height>>,
                        !.last = IF box.isResizing THEN "resize" ELSE "drag",
                        !.resized = @ \/ box.isResizing]
    /\ UNCHANGED <<stampVars, session, first, ncalls, lookupVars, px, inv>>

\* mouseup on the document (line 522)
MouseUp ==
    /\ box.shown
    /\ box.isDragging \/ box.isResizing
    /\ box' = [box EXCEPT !.isDragging = FALSE, !.isResizing = FALSE]
    /\ UNCHANGED <<stampVars, session, first, ncalls, lookupVars, px, inv>>

NextCanvas == ShowCanvas \/ MouseDown \/ MouseMove \/ MouseUp

SpecCanvas == Init /\ [][NextCanvas]_vars

----------------------------------------------------------------------------
(* Properties *)

\* the call has computed drawing_rect (line 56 was executed)
Mapped ==
    \/ pc \in {"box", "layout", "text", "save", "done"}
    \/ pc = "raised" /\ result.error = "ValueError"

\* the call has chosen the font size (line 122 was executed)
LaidOut ==
    \/ pc \in {"text", "save", "done"}
    \/ pc = "raised" /\ result.error = "ValueError"

\* the page being stamped, as opened
ThePage == args.pdf_bytes.pages[1]

\* the visual rectangle is the canvas rectangle divided by zoom: each of its
\* four numbers, in 1/Scale point, times zoom gives back the pixel count
VisualIsCanvasOverZoom ==
    LET canvas == <<args.canvas_x, args.canvas_y, args.canvas_w, args.canvas_h>>
    IN  \A i \in 1..4 : geo.visual[i] * args.zoom[1] = canvas[i] * args.zoom[2] * Scale

\* the four corners of the visual rectangle, each mapped by the page's
\* derotation transform
MappedCorners ==
    {Derot(<<geo.visual[1] + a * geo.visual[3], geo.visual[2] + b * geo.visual[4]>>, ThePage) :
        a \in {0, 1}, b \in {0, 1}}

\* C1: for zoom > 0 the drawing rectangle is the axis-aligned bounding box
\* (min and max of x, min and max of y) of the four corners of the visual
\* rectangle (x/zoom, y/zoom, w/zoom, h/zoom), each mapped by the page's
\* derotation transform; it is not clipped to the page.
C1_BoundingBoxOfDerotatedCorners ==
    (Mapped /\ args.zoom[1] > 0) =>
        LET xs == {c[1] : c \in MappedCorners}
            ys == {c[2] : c \in MappedCorners}
        IN  /\ VisualIsCanvasOverZoom
            /\ geo.drawing_rect = <<SetMin(xs), SetMin(ys), SetMax(xs), SetMax(ys)>>

\* C1 happens: a rotated page, zoom 2, a rectangle that starts left of the
\* visible page; the drawing rectangle reaches outside the native page
C1_Witness ==
    /\ Mapped
    /\ args.zoom = <<2, 1>>
    /\ ThePage.rotation = 90
    /\ args.canvas_x < 0
    /\ args.canvas_w > 0
    /\ args.canvas_h > 0
    /\ geo.drawing_rect[4] > ThePage.h

\* C2 (as claimed): with zoom <= 0 the call fails before any drawing rectangle
\* is produced and returns no PDF
C2_NonPositiveZoomFails ==
    (args.zoom[1] <= 0 /\ pc \notin {"idle", "open", "map"}) =>
        /\ pc = "raised"
        /\ geo = NoGeo
        /\ result.kind = "raised"
        /\ result.output = <<>>

\* C3: the rotation given to the text insertion, and recorded as text_rotate
\* in the diagnostics, is the page's rotation itself
C3_TextRotationIsPageRotation ==
    LaidOut =>
        /\ lay.text_rotate = ThePage.rotation
        /\ debug_info.text_rotate = ThePage.rotation
        /\ \A i \in DOMAIN doc.pages[1].contents :
              doc.pages[1].contents[i][1] = "text"
                  => doc.pages[1].contents[i][5] = ThePage.rotation

\* C3 happens: a page rotated 270 was stamped with text rotated 270
C3_Witness ==
    /\ pc = "done"
    /\ ThePage.rotation = 270
    /\ lay.text_rotate = 270
    /\ \E i \in DOMAIN result.output[1].contents :
          /\ result.output[1].contents[i][1] = "text"
          /\ result.output[1].contents[i][5] = 270

\* C4: the chosen font size is in [5, 10]
C4_FontsizeClamped ==
    LaidOut =>
        /\ MinFontsize * lay.fontsize[2] <= lay.fontsize[1]
        /\ lay.fontsize[1] <= MaxFontsize * lay.fontsize[2]

\* C4 happens: a zero-size rectangle, and a very large one
C4_Witness ==
    /\ LaidOut
    /\ geo.drawing_rect[1] = geo.drawing_rect[3]
    /\ geo.drawing_rect[2] = geo.drawing_rect[4]
    /\ QEq(lay.fontsize, QInt(MinFontsize))

\* the text-fit rectangle's width and height: the drawing rectangle inset by
\* 5pt per side, a dimension that would be negative counting as 0
FitWidth == Max2(0, (geo.drawing_rect[3] - Pt(5)) - (geo.drawing_rect[1] + Pt(5)))

FitHeight == Max2(0, (geo.drawing_rect[4] - Pt(5)) - (geo.drawing_rect[2] + Pt(5)))

\* the space along which a line runs, and the space along which lines stack
LineSpace == IF ThePage.rotation \in {90, 270} THEN FitHeight ELSE FitWidth

StackSpace == IF ThePage.rotation \in {90, 270} THEN FitWidth ELSE FitHeight

\* the character count of the longest of the lines
MaxChars(lines) == SetMax({Len(lines[i]) : i \in DOMAIN lines})

\* q = clamp(min(w, h), 5, 10) for rationals q, w, h
IsClampedMin(q, w, h) ==
    LET m == IF QLeq(w, h) THEN w ELSE h
    IN  IF QLess(m, QInt(5)) THEN QEq(q, QInt(5))
        ELSE IF QLess(QInt(10), m) THEN QEq(q, QInt(10))
        ELSE QEq(q, m)

Scenario ==
    /\ LaidOut
    /\ ThePage = NewPage(0, <<612, 792>>)
    /\ <<args.canvas_x, args.canvas_y, args.canvas_w, args.canvas_h>> = <<50, 50, 140, 80>>
    /\ args.zoom = <<1, 1>>
    /\ args.commitment_id = <<"O", "A", "K", "H", "S">>
    /\ args.amount_due = 693000

DueLine == <<"D", "U", "E", ":", " ", "$", "6", ",", "9", "3", "0", ".", "0", "0">>

RECURSIVE Filler(_)
\* k more characters
Filler(k) == IF k = 0 THEN <<>> ELSE <<"x">> \o Filler(k - 1)

\* the lines with the longest one k characters longer: the same number of
\* lines, the longest line's character count raised by k
Lengthened(lines, k) ==
    LET i == CHOOSE j \in DOMAIN lines : Len(lines[j]) = MaxChars(lines)
    IN  [lines EXCEPT ![i] = @ \o Filler(k)]

\* C7: for the same rectangle, rotation and number of lines, a content whose
\* longest line has at least as many characters gets a font size that is less
\* than or equal
C7_FontsizeMonotone ==
    LaidOut =>
        \A k \in 0..MaxExtraChars :
            LET other == Lengthened(lay.lines, k)
            IN  /\ Len(other) = Len(lay.lines)
                /\ MaxChars(other) >= MaxChars(lay.lines)
                /\ QLeq(Fontsize(lay.text_rect, lay.text_rotate, other), lay.fontsize)

\* C7 happens: a longer longest line gets a strictly smaller font size
C7_Witness ==
    /\ LaidOut
    /\ \E k \in 1..MaxExtraChars :
          /\ MaxChars(Lengthened(lay.lines, k)) > MaxChars(lay.lines)
          /\ QLess(Fontsize(lay.text_rect, lay.text_rotate, Lengthened(lay.lines, k)),
                   lay.fontsize)

\* the drawing rectangle with its width and height exchanged
SwappedDrawingRect ==
    <<geo.drawing_rect[1], geo.drawing_rect[2],
      geo.drawing_rect[1] + (geo.drawing_rect[4] - geo.drawing_rect[2]),
      geo.drawing_rect[2] + (geo.drawing_rect[3] - geo.drawing_rect[1])>>

\* C8: for text rotation 90 or 270 the line length is bounded by the text
\* rectangle's height and the stacking by its width, for 0 or 180 the reverse;
\* so for 90 or 270, exchanging the drawing rectangle's width and height
\* exchanges the two bounds
C8_AxisSwap ==
    LaidOut =>
        /\ lay.text_rotate \in {90, 270} =>
              /\ lay.available_line_width = FitHeight - Pt(10)
              /\ lay.available_stack_height = FitWidth - Pt(10)
              /\ AvailableLineWidth(TextRect(SwappedDrawingRect), lay.text_rotate)
                    = FitWidth - Pt(10)
              /\ AvailableStackHeight(TextRect(SwappedDrawingRect), lay.text_rotate)
                    = FitHeight - Pt(10)
        /\ lay.text_rotate \in {0, 180} =>
              /\ lay.available_line_width = FitWidth - Pt(10)
              /\ lay.available_stack_height = FitHeight - Pt(10)
        /\ debug_info.available_line_width * Scale = lay.available_line_width * 10

\* C8 happens: text rotated 270 in a text rectangle higher than wide, the line
\* length bounded by the height, the larger dimension
C8_Witness ==
    /\ LaidOut
    /\ lay.text_rotate = 270
    /\ FitHeight > FitWidth
    /\ FitWidth > Pt(10)
    /\ lay.available_line_width = FitHeight - Pt(10)
    /\ lay.available_line_width > lay.available_stack_height

\* the visible (rotated) page's width and height, in 1/Scale point
VisibleWidth == IF ThePage.rotation \in {90, 270} THEN ThePage.h ELSE ThePage.w

VisibleHeight == IF ThePage.rotation \in {90, 270} THEN ThePage.w ELSE ThePage.h

\* the canvas rectangle lies inside the rendered page:
\* 0 <= x, 0 <= y, x + w <= zoom * visible width, y + h <= zoom * visible height
CanvasRectInsidePage ==
    /\ 0 <= args.canvas_x
    /\ 0 <= args.canvas_y
    /\ 0 <= args.canvas_w
    /\ 0 <= args.canvas_h
    /\ (args.canvas_x + args.canvas_w) * args.zoom[2] * Scale <= args.zoom[1] * VisibleWidth
    /\ (args.canvas_y + args.canvas_h) * args.zoom[2] * Scale <= args.zoom[1] * VisibleHeight

\* C9: for zoom 0.5, 1.0 or 2.0 and any rotation, a canvas rectangle inside the
\* rendered page maps to a drawing rectangle inside the native page
C9_InsidePageStaysInside ==
    (Mapped /\ args.zoom \in {<<1, 2>>, <<1, 1>>, <<2, 1>>} /\ CanvasRectInsidePage) =>
        /\ 0 <= geo.drawing_rect[1]
        /\ geo.drawing_rect[1] <= geo.drawing_rect[3]
        /\ geo.drawing_rect[3] <= ThePage.w
        /\ 0 <= geo.drawing_rect[2]
        /\ geo.drawing_rect[2] <= geo.drawing_rect[4]
        /\ geo.drawing_rect[4] <= ThePage.h

\* C9 happens: a page rotated 90 shown at zoom 0.5, the rectangle flush with
\* the right and bottom edges of the preview
C9_Witness ==
    /\ Mapped
    /\ CanvasRectInsidePage
    /\ ThePage.rotation = 90
    /\ args.zoom = <<1, 2>>
    /\ args.canvas_w > 0
    /\ args.canvas_h > 0
    /\ (args.canvas_x + args.canvas_w) * args.zoom[2] * Scale = args.zoom[1] * VisibleWidth
    /\ (args.canvas_y + args.canvas_h) * args.zoom[2] * Scale = args.zoom[1] * VisibleHeight

\* C10 (as claimed): with a readable PDF of at least one page and zoom > 0 the
\* call never raises, whatever the canvas rectangle
C10_NoRaiseOnGeometry ==
    (args.pdf_bytes.readable /\ args.pdf_bytes.pages # <<>> /\ args.zoom[1] > 0) =>
        pc # "raised"

----------------------------------------------------------------------------
(* Failures, handles and what a call adds to the document *)

\* C11: when the PDF cannot be opened or has no pages the call raises: it
\* returns neither bytes nor diagnostics; the generate stage does not catch the
\* error, so after a failed stamping the stage is still 'generate' and
\* output_bytes is not set; the stage is 'preview' only after a call that
\* returned, whose bytes output_bytes then holds
C11_FailedStampingStaysInGenerate ==
    /\ (pc \notin {"idle", "open"} /\ OpenPageError(args.pdf_bytes, 0) # "") =>
          /\ pc = "raised"
          /\ result.error = OpenPageError(args.pdf_bytes, 0)
    /\ pc = "raised" =>
          /\ result.kind = "raised"
          /\ result.output = <<>>
          /\ session = NoSession
    /\ session.stage = "preview" =>
          /\ result.kind = "returned"
          /\ session.output_bytes = result.output

\* C11 happens: a readable PDF without pages was given, page 0 was asked for
\* and the call raised; the session is still in the generate stage
C11_Witness ==
    /\ pc = "raised"
    /\ result.error = "IndexError"
    /\ args.pdf_bytes.readable
    /\ args.pdf_bytes.pages = <<>>
    /\ session.stage = "generate"
    /\ session.output_bytes = <<>>

\* C12 (as claimed): whenever stamp_pdf_at_position, get_pdf_preview,
\* get_pdf_dimensions or get_pdf_rotation has left, by return or by an error,
\* the document it opened is closed
C12_NoHandleOutlivesCall ==
    pc \in {"done", "raised"} =>
        /\ ~doc.open
        /\ \A page_num \in 0..MaxPages :
              /\ ~GetPdfPreview(args.pdf_bytes, page_num, <<1, 1>>).open
              /\ ~GetPdfDimensions(args.pdf_bytes, page_num).open
              /\ ~GetPdfRotation(args.pdf_bytes, page_num).open

\* the content of the first page: as given, and as the call has made it
GivenContent == ThePage.contents

StampedContent == doc.pages[1].contents

\* C14 (as claimed): a call that returns has added exactly one rectangle and
\* one text block, both at the end of the first page's content; the other
\* pages are as given and the number of pages is the same
C14_OneRectangleOneTextBlock ==
    pc = "done" =>
        /\ Len(result.output) = Len(args.pdf_bytes.pages)
        /\ \A i \in 2..Len(result.output) : result.output[i] = args.pdf_bytes.pages[i]
        /\ [result.output[1] EXCEPT !.contents = GivenContent] = ThePage
        /\ Len(result.output[1].contents) = Len(GivenContent) + 2
        /\ SubSeq(result.output[1].contents, 1, Len(GivenContent)) = GivenContent
        /\ result.output[1].contents[Len(GivenContent) + 1][1] = "rect"
        /\ result.output[1].contents[Len(GivenContent) + 2][1] = "text"

\* the rectangle of the stamp is in the page's content, at drawing_rect, right
\* after what the page held
BoxDrawn ==
    /\ Len(StampedContent) > Len(GivenContent)
    /\ StampedContent[Len(GivenContent) + 1] = <<"rect", geo.drawing_rect>>

\* C18: from the moment the layout starts, so before the text insertion is
\* attempted, the rectangle is on the page at exactly drawing_rect, and it
\* stays there whether the text is then written, overflows (nothing written)
\* or the insertion raises; a text block is never in front of it
C18_BoxDrawnBeforeText ==
    /\ (pc \in {"layout", "text", "save", "done"}
            \/ (pc = "raised" /\ result.error = "ValueError")) => BoxDrawn
    /\ pc = "done" => result.output[1].contents[Len(GivenContent) + 1]
                          = <<"rect", geo.drawing_rect>>
    /\ doc.pages # <<>> =>
          \A i \in DOMAIN StampedContent :
             StampedContent[i][1] = "text" => (BoxDrawn /\ i > Len(GivenContent) + 1)

\* C18 happens: the text insertion raised, the rectangle is drawn
C18_Witness ==
    /\ pc = "raised"
    /\ result.error = "ValueError"
    /\ BoxDrawn
    /\ Len(StampedContent) = Len(GivenContent) + 1

\* the room the font-size computation takes for an axis of the text-fit
\* rectangle, before the margin of 10 is taken off: the width is the line
\* length, or the stack height when the text is rotated by 90 or 270
WidthUsed ==
    Pt(LineMargin) + (IF lay.text_rotate \in {90, 270} THEN lay.available_stack_height
                      ELSE lay.available_line_width)

HeightUsed ==
    Pt(LineMargin) + (IF lay.text_rotate \in {90, 270} THEN lay.available_line_width
                      ELSE lay.available_stack_height)

\* the first length for upright text, the second for text rotated by 90 or 270
WidthOrHeight(text_rotate, a, b) == IF text_rotate \in {90, 270} THEN b ELSE a

\* C19: the text-fit rectangle is drawing_rect shrunk by 5 points on each
\* side; an axis on which it has no extent left (x1 - x0 <= 0, y1 - y0 <= 0)
\* enters the font-size computation as 0, otherwise as its extent
C19_NoRoomCountsAsZero ==
    LaidOut =>
        LET dr == geo.drawing_rect
            tr == lay.text_rect
        IN  /\ tr = <<dr[1] + Pt(5), dr[2] + Pt(5), dr[3] - Pt(5), dr[4] - Pt(5)>>
            /\ WidthUsed = (IF tr[3] - tr[1] <= 0 THEN 0 ELSE tr[3] - tr[1])
            /\ HeightUsed = (IF tr[4] - tr[2] <= 0 THEN 0 ELSE tr[4] - tr[2])
            /\ lay.fontsize =
                 Clamp(QMin(FontsizeW(WidthOrHeight(lay.text_rotate, WidthUsed, HeightUsed)
                                        - Pt(LineMargin), LongestLen(lay.lines)),
                            FontsizeH(WidthOrHeight(lay.text_rotate, HeightUsed, WidthUsed)
                                        - Pt(LineMargin), Len(lay.lines))))

\* C19 happens: a drawing rectangle narrower than 10 points leaves the
\* text-fit rectangle with x1 < x0; its width counts as 0
C19_Witness ==
    /\ LaidOut
    /\ RectWidth(geo.drawing_rect) < Pt(10)
    /\ RectHeight(geo.drawing_rect) > Pt(10)
    /\ lay.text_rect[3] < lay.text_rect[1]
    /\ WidthUsed = 0
    /\ HeightUsed > 0

\* the labels of the six lines, in order
Labels ==
    << <<"C", "O", "M", ":", " ">>, <<"C", ".", "C", ":", " ">>,
       <<"D", "U", "E", ":", " ", "$">>, <<"R", "E", "T", ":", " ", "$">>,
       <<"B", "y", ":", " ">>, <<"D", "a", "t", "e", ":", " ">> >>

StartsWith(s, prefix) == Len(s) >= Len(prefix) /\ SubSeq(s, 1, Len(prefix)) = prefix

HasLineBreak(s) == \E i \in DOMAIN s : s[i] = NL

\* the stamp text is the six lines COM, C.C, DUE, RET, By, Date in this order,
\* and the longest line is one of maximal length among them
SixLines ==
    /\ Len(lay.lines) = 6
    /\ \A i \in 1..6 : StartsWith(lay.lines[i], Labels[i])
    /\ \E i \in 1..6 : LongestLine(lay.lines) = lay.lines[i]
    /\ \A i \in 1..6 : Len(lay.lines[i]) <= Len(LongestLine(lay.lines))
    /\ lay.fontsize = Clamp(QMin(FontsizeW(lay.available_line_width, LongestLen(lay.lines)),
                                 FontsizeH(lay.available_stack_height, 6)))

\* C20 (as claimed): whatever commitment ID, cost code, amounts and approver the
\* caller gives, the stamp text is the six lines
C20_AlwaysSixLines == LaidOut => SixLines

\* C20 (amended): when no line break is in the commitment ID, the cost code
\* or the approver, the stamp text is the six lines
C20_SixLinesWithoutLineBreak ==
    (LaidOut /\ ~HasLineBreak(args.commitment_id) /\ ~HasLineBreak(args.cost_code)
             /\ ~HasLineBreak(args.approver)) => SixLines

\* C20 happens: a blank commitment ID and an empty approver, six lines
C20_Witness ==
    /\ LaidOut
    /\ args.commitment_id = <<>>
    /\ args.approver = <<>>
    /\ SixLines
    /\ lay.lines[1] = <<"C", "O", "M", ":", " ", "_", "_", "_", "_", "_", "_", "_", "_">>
    /\ lay.lines[5] = <<"B", "y", ":", " ">>

----------------------------------------------------------------------------
(* Calls repeated *)

\* the call in progress has reached the layout and was given the PDF bytes,
\* the canvas rectangle and the zoom of the first call of the run
SameGeometryInputs ==
    /\ first.finished
    /\ LaidOut
    /\ args.pdf_bytes = first.pdf_bytes
    /\ <<args.canvas_x, args.canvas_y, args.canvas_w, args.canvas_h>> = first.canvas
    /\ args.zoom = first.zoom

\* it was also given the content of the first call
SameContent ==
    <<args.commitment_id, args.cost_code, args.amount_due, args.retainage,
      args.approver>> = first.content

\* the PDF given is as it was given: the stamp is on the opened document and
\* in the returned bytes, never on the caller's bytes
InputUntouched ==
    /\ ThePage.contents = <<>>
    /\ args.pdf_bytes = first.pdf_bytes
    /\ pc = "done" => result.output # args.pdf_bytes.pages

\* C13 (as claimed): a call given the PDF bytes, canvas rectangle and zoom of an
\* earlier call (and the same content) computes the same drawing rectangle,
\* text rotation and font size, whatever calls were made in between
C13_SameInputsSameResult ==
    (SameGeometryInputs /\ SameContent) =>
        /\ geo.drawing_rect = first.drawing_rect
        /\ lay.text_rotate = first.text_rotate
        /\ lay.fontsize = first.fontsize

\* C13 (amended): such a call computes the same drawing rectangle and text
\* rotation; it computes the same font size when it is given the same content
\* and either runs on the same date or the By line is longer than any Date line
\* (16 characters at most); the caller's PDF is not modified
C13_SameGeometrySameRotation ==
    SameGeometryInputs =>
        /\ geo.drawing_rect = first.drawing_rect
        /\ lay.text_rotate = first.text_rotate
        /\ (SameContent /\ (args.now = first.now \/ Len(Labels[5]) + Len(args.approver) > 16))
              => lay.fontsize = first.fontsize
        /\ InputUntouched

\* C13 happens: the third call of a run is given what the first was given,
\* on another date, after a call with another page, and has stamped the same
\* rectangle with the same font size
C13_Witness ==
    /\ SameGeometryInputs
    /\ SameContent
    /\ ncalls = 2
    /\ pc = "done"
    /\ args.now # first.now
    /\ args.pdf_bytes.pages[1].rotation = 90
    /\ Len(args.approver) = 15
    /\ lay.fontsize = first.fontsize
    /\ QLess(QInt(MinFontsize), lay.fontsize)
    /\ QLess(lay.fontsize, QInt(MaxFontsize))

----------------------------------------------------------------------------
(* The vendor lookup *)

\* lookup_vendor has returned what get_codes gave
Looked == lk.op = "lookup_vendor" /\ lk.kind = "returned"

\* the vendors of the CSV the instance holds
CsvVendors == {lookup_instance.rows[i].vendor : i \in DOMAIN lookup_instance.rows}

\* the name asked for, or its form without the company suffix, is a vendor of
\* the CSV when case is ignored
EqualsIgnoringCase(vendor) ==
    Lower(vendor) \in {Lower(lk.vendor_name), Lower(Normalized(lk.vendor_name))}

\* the best score of the fuzzy matching over both forms of the name and both
\* scorers; 0 when nothing was scored
BestScore ==
    SetMax({0} \cup {lk.results[k].score : k \in {j \in DOMAIN lk.results : lk.results[j].found}})

\* C15: get_codes returns (None, None, None) when vendor_name is empty, and
\* when no vendor of the CSV equals the name or its suffix-stripped form, case
\* ignored, and the best fuzzy score is below the threshold; a matched vendor
\* that is not None is a vendor of the CSV that either equals the name (or its
\* suffix-stripped form), case ignored, or scored at least the threshold
C15_GetCodesResult ==
    Looked =>
        /\ lk.vendor_name = <<>> => lk.value = NoCodes
        /\ ((\A v \in CsvVendors : ~EqualsIgnoringCase(v)) /\ BestScore < lk.threshold)
              => lk.value = NoCodes
        /\ lk.value.matched_vendor # None =>
              /\ lk.value.matched_vendor \in CsvVendors
              /\ \/ EqualsIgnoringCase(lk.value.matched_vendor)
                 \/ \E k \in DOMAIN lk.results :
                       /\ lk.results[k].found
                       /\ lk.results[k].vendor = lk.value.matched_vendor
                       /\ lk.results[k].score >= lk.threshold
        /\ lk.value.matched_vendor = None => lk.value = NoCodes

\* C15 happens: the name without its suffix LLC scored 75 against the
\* threshold 70; the vendor and its codes are returned
C15_Witness ==
    /\ Looked
    /\ lk.vendor_name = <<"a", "b", " ", "L", "L", "C">>
    /\ BestScore = 75
    /\ lk.threshold = 70
    /\ lk.value.matched_vendor = AbInc
    /\ lk.value.commitment_id = <<"O", "A", "K">>

\* the constructions of VendorLookup that succeeded
Successes == {i \in DOMAIN constructed : constructed[i] # 0}

\* C17: at most one VendorLookup was successfully constructed; every call of
\* get_lookup or lookup_vendor that did not raise used that one instance, which
\* the module global holds; while constructions raise the global stays None,
\* so the next call constructs again
C17_Singleton ==
    /\ Cardinality(Successes) <= 1
    /\ lookup_instance # NoInstance <=> Successes # {}
    /\ \A i \in Successes : i = Len(constructed) /\ constructed[i] = lookup_instance.id
    /\ lk.kind = "returned" => (lookup_instance # NoInstance /\ lk.instance = lookup_instance.id)
    /\ lk.kind = "raised" => (lookup_instance = NoInstance /\ constructed[Len(constructed)] = 0)

\* C17 happens: the first construction raised and left the global None; the
\* next call constructed again; lookup_vendor is given that instance
C17_Witness ==
    /\ constructed = <<0, 2>>
    /\ lk.op = "lookup_vendor"
    /\ lk.kind = "returned"
    /\ lk.instance = 2
    /\ lookup_instance.id = 2

----------------------------------------------------------------------------
(* The retainage of an invoice *)

\* C16 (as claimed): extract_retainage gives the explicit retainage when the
\* text has a positive one; otherwise total completed minus total earned less
\* retainage when both are there; otherwise, when total_completed is given,
\* 10% of total_completed
C16_TenPercentFallback ==
    px.op = "extract_retainage" =>
        LET explicit == ExplicitRetainage(px.text)
            earned == ExtractTotalEarnedLessRetainage(px.text)
        IN  /\ explicit # NoAmount => px.value = explicit
            /\ (explicit = NoAmount /\ px.total_completed > 0 /\ earned > 0
                   /\ px.total_completed > earned)
                  => px.value = px.total_completed - earned
            /\ (explicit = NoAmount /\ px.total_completed > 0 /\ earned = NoAmount)
                  => px.value * 10 = px.total_completed

----------------------------------------------------------------------------
\* C21: after process_invoice, commitment_id of the invoice data is the
\* lookup's commitment ID when the lookup gave one, and otherwise the value
\* parse_invoice read from an existing stamp in the text; the same holds for
\* cost_code on its own; a lookup that gave nothing, or one of the two codes
\* only, erases no parsed value.
C21_LookupOverridesOnlyWhenFound ==
    (inv.op = "process_invoice" /\ ~inv.raised) =>
        LET data == inv.value.invoice_data
        IN  /\ inv.looked.commitment_id # None => data.commitment_id = inv.looked.commitment_id
            /\ inv.looked.commitment_id = None => data.commitment_id = inv.parsed.commitment_id
            /\ inv.looked.cost_code # None => data.cost_code = inv.looked.cost_code
            /\ inv.looked.cost_code = None => data.cost_code = inv.parsed.cost_code
            /\ inv.parsed.commitment_id # None => data.commitment_id # None
            /\ inv.parsed.cost_code # None => data.cost_code # None

\* a partial lookup: it gave a cost code and no commitment ID, the text has
\* both stamp values; the parsed commitment ID is kept and the cost code is
\* the lookup's
C21_Witness ==
    /\ inv.op = "process_invoice"
    /\ ~inv.raised
    /\ inv.looked.commitment_id = None
    /\ inv.looked.cost_code = <<"9">>
    /\ inv.parsed.commitment_id = <<"O", "A", "K", "H", "S">>
    /\ inv.parsed.cost_code = <<"2", "3", "-", "3">>
    /\ inv.value.invoice_data.commitment_id = <<"O", "A", "K", "H", "S">>
    /\ inv.value.invoice_data.cost_code = <<"9">>

----------------------------------------------------------------------------
\* C24: whenever parse_invoice finds a total completed that is not zero and
\* finds no current payment due, amount_due + retainage = total_completed in
\* its result: with an extracted retainage amount_due is the total less the
\* retainage, without one amount_due is 90% and retainage 10% of the total.
C24_DueAndRetainageSumToTotal ==
    inv.op = "process_invoice" =>
        LET total_completed == ExtractTotalCompleted(inv.text)
            retainage == ExtractRetainageValue(inv.text, total_completed)
        IN  (/\ total_completed # NoAmount
             /\ total_completed # 0
             /\ ExtractCurrentPaymentDue(inv.text) = NoAmount)
            => /\ inv.parsed.amount_due + inv.parsed.retainage = inv.parsed.total_completed
               /\ inv.parsed.total_completed = 10 * total_completed
               /\ retainage # NoAmount =>
                     /\ inv.parsed.retainage = 10 * retainage
                     /\ inv.parsed.amount_due = 10 * (total_completed - retainage)
               /\ retainage = NoAmount =>
                     /\ 10 * inv.parsed.amount_due = 9 * inv.parsed.total_completed
                     /\ 10 * inv.parsed.retainage = inv.parsed.total_completed

\* a total of 7,700.00, a retainage of 1,000.00 read from the text and no
\* current payment due: 6,700.00 is due
C24_Witness ==
    /\ inv.op = "process_invoice"
    /\ ExtractTotalCompleted(inv.text) = 770000
    /\ ExtractCurrentPaymentDue(inv.text) = NoAmount
    /\ ExtractRetainageValue(inv.text, 770000) = 100000
    /\ inv.parsed.amount_due = 6700000
    /\ inv.parsed.retainage = 1000000

----------------------------------------------------------------------------
(* The wizard *)

\* the keys each stage relies on are set
StageHasItsData ==
    /\ session.stage \in {"upload", "verify", "position", "generate", "preview", "download"}
    /\ session.stage \in {"verify", "position", "generate", "preview", "download"} =>
          session.pdf_bytes # <<>> /\ session.invoice_data # <<>>
    /\ session.stage \in {"position", "generate", "preview", "download"} =>
          session.final_data # <<>>
    /\ session.stage \in {"preview", "download"} =>
          session.output_bytes # <<>> /\ session.preview_png # <<>>

\* the step from download to upload leaves nothing of the invoice behind
ProcessAnotherClears ==
    (session.stage = "download" /\ session'.stage = "upload") =>
        /\ session'.pdf_bytes = <<>>
        /\ session'.invoice_data = <<>>
        /\ session'.final_data = <<>>
        /\ session'.output_bytes = <<>>
        /\ session'.preview_png = <<>>
        /\ session' = FreshSession

\* C22: in every state the wizard reaches by clicks and uploads the stage is
\* one of the six; from verify on pdf_bytes and invoice_data are set, from
\* position on final_data is set, in preview and download output_bytes and
\* preview_png are set; and Process Another Invoice leads to upload with all
\* session data cleared.
C22_StagesHaveTheirData == [](StageHasItsData) /\ [][ProcessAnotherClears]_vars

\* an invoice went through all stages and Process Another Invoice was clicked:
\* the session is new, the last call of the stamper had returned
C22_Witness ==
    /\ session = FreshSession
    /\ pc = "done"
    /\ result.kind = "returned"

\* how many entries of this kind the first page of a document holds
Drawn(pages, kind) ==
    Cardinality({i \in DOMAIN pages[1].contents : pages[1].contents[i][1] = kind})

\* output_bytes is what one call of the stamper made of pdf_bytes with the
\* stored position and zoom: the upload with one rectangle and at most one
\* text block more
StampedOnce ==
    session.stage \in {"preview", "download"} =>
        /\ pc = "done"
        /\ result.kind = "returned"
        /\ session.output_bytes = result.output
        /\ args.pdf_bytes = session.pdf_bytes[1]
        /\ <<args.canvas_x, args.canvas_y, args.canvas_w, args.canvas_h>> = session.stamp
        /\ args.zoom = session.zoom
        /\ session.pdf_bytes[1] \in WizardPdfs
        /\ Drawn(session.pdf_bytes[1].pages, "rect") = 0
        /\ Drawn(session.output_bytes, "rect") = 1
        /\ Drawn(session.output_bytes, "text") <= 1
        /\ session.output_bytes[1].contents[1] =
              <<"rect", DrawingRect(VisualRect(session.stamp[1], session.stamp[2],
                                               session.stamp[3], session.stamp[4],
                                               session.zoom),
                                    session.pdf_bytes[1].pages[1])>>

\* a step of the generate stage leaves pdf_bytes as it is
GenerateKeepsPdfBytes ==
    session.stage = "generate" => session'.pdf_bytes = session.pdf_bytes

\* C23: stamps do not accumulate: after any number of position -> generate
\* cycles output_bytes is the uploaded pdf_bytes stamped exactly once, with the
\* position and zoom stored last; the generate stage stamps no earlier output
\* and does not overwrite pdf_bytes.
C23_StampsNeverAccumulate == [](StampedOnce) /\ [][GenerateKeepsPdfBytes]_vars

\* the stamp was applied, moved and applied again: the preview shows the
\* upload with one rectangle, at the position stored last
C23_Witness ==
    /\ session.stage = "preview"
    /\ ncalls >= 1
    /\ session.stamp = <<660, 320, 140, 80>>
    /\ Drawn(session.output_bytes, "rect") = 1
    /\ Drawn(session.output_bytes, "text") = 1

----------------------------------------------------------------------------
(* The canvas *)

\* the box lies inside the preview image
InsideImage ==
    /\ 0 <= box.left /\ box.left <= box.canvas_width - box.width
    /\ 0 <= box.top /\ box.top <= box.canvas_height - box.height

\* C25: when the mouse last moved the box by dragging its body and the box is
\* no larger than the preview image, the box lies inside the image, 0 <= left
\* <= canvas_width - width and 0 <= top <= canvas_height - height; a resize
\* move leaves the box at least 60 px wide and 40 px high, and so does
\* whatever follows it.
C25_DragStaysInsideResizeKeepsMinimum ==
    box.shown =>
        /\ (/\ box.last = "drag"
            /\ box.width <= box.canvas_width
            /\ box.height <= box.canvas_height) => InsideImage
        /\ box.resized => box.width >= MinBoxWidth /\ box.height >= MinBoxHeight

\* the box, 140 x 80, began below the lower edge of an image 100 px high; it
\* was resized down to its least size, then dragged towards the far corner and
\* stopped flush with the right and lower edges
C25_Witness ==
    /\ box.shown
    /\ box.canvas_height = 100
    /\ box.resized
    /\ box.last = "drag"
    /\ box.width = MinBoxWidth
    /\ box.height = MinBoxHeight
    /\ box.left = box.canvas_width - box.width
    /\ box.top = box.canvas_height - box.height

====
